---------------------------- MODULE Spec2Model ----------------------------
(***************************************************************************)
(* A model of the lock-enforcement engine of obsidian-lock-cards:          *)
(* CanvasLockManager (src/src/canvas/types.ts) and the command layer of    *)
(* LockCardsPlugin (src/src/main.ts).                                      *)
(*                                                                         *)
(* Numbers are integers in units of 1e-4, so the tolerance eps = 0.0001    *)
(* of isSameSnapshot is 1.  Times are milliseconds.  An optional value is  *)
(* the empty tuple (undefined / null / absent) or a one-element tuple.     *)
(* A DOM element of a canvas node is named by the pair <<view, nodeId>>.   *)
(***************************************************************************)
EXTENDS Integers, Sequences, FiniteSets, TLC

-----------------------------------------------------------------------------
(* Optional values *)

None == <<>>

Some(x) == <<x>>

IsSome(o) == o # <<>>

Get(o) == o[1]

-----------------------------------------------------------------------------
(* The universe of the model *)

\* v1 and v3 are two panes that show the same canvas file
Views == {"v1", "v2", "v3"}

\* The views that show a canvas each of its own
OwnViews == {"v1", "v2"}

Canvases == {"c1", "c2"}

NodeIds == {"a", "b"}

\* view.file.path of a canvas view
PathOf(v) == IF v = "v2" THEN "c2" ELSE "c1"

\* the ids canvas.nodes holds in a view
NodesOf(v) == IF v = "v2" THEN {"a"} ELSE {"a", "b"}

Pointers == {1, 2}

\* The enforcement deadline Number.POSITIVE_INFINITY: larger than any time.
Infinity == 1000000

\* Date.now() when the engine is constructed
StartTime == 1000

\* The clock advances in steps of TimeStep ms, up to StartTime + MaxElapsed.
TimeStep == 25

MaxElapsed == 50

\* The coordinates the host writes: 0..MaxCoord
MaxCoord == 2

\* The longest mutation batch delivered to the observer
MaxRecords == 2

-----------------------------------------------------------------------------
(* Geometry records: ModelSnapshot, readModelSnapshot, restoreModelSnapshot *)

Modes == <<"top", "pos", "rect", "data">>

\* A candidate base object: the fields fromObj and applyTo look at.  A field
\* is Some(n) when typeof field === "number" and None otherwise.
EmptyBase == [x |-> None, y |-> None, width |-> None, height |-> None,
              w |-> None, h |-> None]

\* A node object o: o itself ("top") and o.pos, o.rect, o.data, each None
\* when it is not an object.
EmptyObj == [top |-> Some(EmptyBase), pos |-> None, rect |-> None, data |-> None]

\* fromObj(base, mode)
FromObj(base, mode) ==
    IF base = None THEN None
    ELSE LET b == Get(base) IN
         IF b.x = None \/ b.y = None THEN None
         ELSE Some([mode |-> mode, x |-> Get(b.x), y |-> Get(b.y),
                    w |-> IF IsSome(b.width) THEN b.width ELSE b.w,
                    h |-> IF IsSome(b.height) THEN b.height ELSE b.h])

RECURSIVE FirstFromObj(_, _)
FirstFromObj(o, i) ==
    IF i > Len(Modes) THEN None
    ELSE LET r == FromObj(o[Modes[i]], Modes[i]) IN
         IF IsSome(r) THEN r ELSE FirstFromObj(o, i + 1)

\* readModelSnapshot(view, nodeId), given nodes.get(nodeId) as an option
ReadModelSnapshot(nodeObj) ==
    IF nodeObj = None THEN None ELSE FirstFromObj(Get(nodeObj), 1)

\* applyTo(base) without the assignment of y
ApplyTo_SkipsY(base, snap) ==
    IF base = None THEN [ok |-> FALSE, base |-> base]
    ELSE LET b == Get(base) IN
      IF b.x = None \/ b.y = None THEN [ok |-> FALSE, base |-> base]
      ELSE [ok |-> TRUE, base |-> Some([b EXCEPT !.x = Some(snap.x)])]

\* applyTo(base): the base after the call and the boolean it returns.  The
\* write of x happens before y is tested.
ApplyTo(base, snap) ==
    IF base = None THEN [ok |-> FALSE, base |-> base]
    ELSE LET b == Get(base) IN
      IF b.x = None THEN [ok |-> FALSE, base |-> base]
      ELSE LET b1 == [b EXCEPT !.x = Some(snap.x)] IN
        IF b.y = None THEN [ok |-> FALSE, base |-> Some(b1)]
        ELSE LET b2 == [b1 EXCEPT !.y = Some(snap.y)]
                 b3 == IF snap.w = None THEN b2
                       ELSE IF IsSome(b2.width) THEN [b2 EXCEPT !.width = snap.w]
                       ELSE IF IsSome(b2.w) THEN [b2 EXCEPT !.w = snap.w]
                       ELSE b2
                 b4 == IF snap.h = None THEN b3
                       ELSE IF IsSome(b3.height) THEN [b3 EXCEPT !.height = snap.h]
                       ELSE IF IsSome(b3.h) THEN [b3 EXCEPT !.h = snap.h]
                       ELSE b3
             IN [ok |-> TRUE, base |-> Some(b4)]

\* The order in which restoreModelSnapshot tries the bases
Bases(mode) ==
    IF mode = "top" THEN <<"top", "pos", "rect", "data">>
    ELSE IF mode = "pos" THEN <<"pos", "top", "rect", "data">>
    ELSE IF mode = "rect" THEN <<"rect", "top", "pos", "data">>
    ELSE IF mode = "data" THEN <<"data", "top", "pos", "rect">>
    ELSE <<"top", "pos", "rect", "data">>

RECURSIVE ApplyBases(_, _, _, _)
ApplyBases(o, snap, bases, i) ==
    IF i > Len(bases) THEN o
    ELSE LET r == ApplyTo(o[bases[i]], snap)
             o1 == [o EXCEPT ![bases[i]] = r.base]
         IN IF r.ok THEN o1 ELSE ApplyBases(o1, snap, bases, i + 1)

\* restoreModelSnapshot(view, nodeId, snap): the node object afterwards
RestoreModelSnapshot(nodeObj, snap) ==
    IF nodeObj = None THEN nodeObj
    ELSE Some(ApplyBases(Get(nodeObj), snap, Bases(snap.mode), 1))

\* The redraw triggers restoreModelSnapshot looks for on the canvas object
MaybeMethods == <<"requestRender", "requestFrame", "render", "redraw">>

\* What canvasObj[m] is: not a function, a function that returns, or a
\* function that throws
MethodKinds == {"absent", "ok", "throws"}

\* The canvas object of the host: requestFrame only
HostCanvasMethods ==
    [m \in {MaybeMethods[i] : i \in 1..Len(MaybeMethods)} |->
        IF m = "requestFrame" THEN "ok" ELSE "absent"]

\* The loop over maybeMethods from the i-th on: the methods it invokes.  A
\* method that returns ends the loop; one that throws is caught and the
\* loop goes on.
RECURSIVE RequestRedraw(_, _)
RequestRedraw(methods, i) ==
    IF i > Len(MaybeMethods) THEN <<>>
    ELSE LET m == MaybeMethods[i] IN
         IF methods[m] = "absent" THEN RequestRedraw(methods, i + 1)
         ELSE IF methods[m] = "ok" THEN <<m>>
         ELSE <<m>> \o RequestRedraw(methods, i + 1)

\* Whether restoreModelSnapshot assigns any field of the node object
RestoreWrites(nodeObj, snap) ==
    /\ IsSome(nodeObj)
    /\ \E i \in 1..Len(Modes) :
          LET base == Get(nodeObj)[Modes[i]] IN IsSome(base) /\ IsSome(Get(base).x)

Eps == 1

Abs(n) == IF n < 0 THEN -n ELSE n

Close(x, y) == Abs(x - y) <= Eps

\* The observer's comparison taking a size that only one snapshot has for
\* equal
IsSameSnapshot_OneUndefinedIsSame(a, b) ==
    IF ~Close(a.x, b.x) \/ ~Close(a.y, b.y) THEN FALSE
    ELSE IF IsSome(a.w) /\ IsSome(b.w) /\ ~Close(Get(a.w), Get(b.w)) THEN FALSE
    ELSE IF IsSome(a.h) /\ IsSome(b.h) /\ ~Close(Get(a.h), Get(b.h)) THEN FALSE
    ELSE TRUE

\* isSameSnapshot(a, b), the copy in the observer
IsSameSnapshot(a, b) ==
    IF ~Close(a.x, b.x) \/ ~Close(a.y, b.y) THEN FALSE
    ELSE IF (a.w = None \/ b.w = None) /\ a.w # b.w THEN FALSE
    ELSE IF IsSome(a.w) /\ IsSome(b.w) /\ ~Close(Get(a.w), Get(b.w)) THEN FALSE
    ELSE IF (a.h = None \/ b.h = None) /\ a.h # b.h THEN FALSE
    ELSE IF IsSome(a.h) /\ IsSome(b.h) /\ ~Close(Get(a.h), Get(b.h)) THEN FALSE
    ELSE TRUE


-----------------------------------------------------------------------------
(* Inline styles: a style attribute is a sequence of <<property, value>>   *)
(* declarations; "" is the value of a property that is not set.            *)

PositionProps == <<"left", "top", "width", "height", "transform">>

RECURSIVE LastValue(_, _, _)
LastValue(style, prop, i) ==
    IF i = 0 THEN ""
    ELSE IF style[i][1] = prop THEN style[i][2]
    ELSE LastValue(style, prop, i - 1)

\* CSSStyleDeclaration.getPropertyValue(prop)
GetPropertyValue(style, prop) == LastValue(style, prop, Len(style))

\* CSSStyleDeclaration.removeProperty(prop)
RemoveProperty(style, prop) == SelectSeq(style, LAMBDA d : d[1] # prop)

\* CSSStyleDeclaration.setProperty(prop, v): in place when declared, else appended
SetProperty(style, prop, v) ==
    IF \E i \in 1..Len(style) : style[i][1] = prop
    THEN [i \in 1..Len(style) |-> IF style[i][1] = prop THEN <<prop, v>> ELSE style[i]]
    ELSE Append(style, <<prop, v>>)

RECURSIVE RestoreProps(_, _, _)
RestoreProps(cur, saved, i) ==
    IF i > Len(PositionProps) THEN cur
    ELSE LET prop == PositionProps[i]
             v == GetPropertyValue(saved, prop)
         IN RestoreProps(IF v # "" THEN SetProperty(cur, prop, v)
                         ELSE RemoveProperty(cur, prop), saved, i + 1)

\* restorePositionStyleOnly that assigns the whole saved style attribute
RestorePositionStyleOnly_WholeStyle(cur, saved) == saved

\* restorePositionStyleOnly(nodeEl, savedStyle): the element's style afterwards
RestorePositionStyleOnly(cur, saved) == RestoreProps(cur, saved, 1)

\* hasInlinePositionProps(el) of findMoveElement
HasInlinePositionProps(style) ==
    /\ style # <<>>
    /\ \E i \in 1..Len(style) : \E k \in 1..Len(PositionProps) :
          style[i][1] = PositionProps[k]

\* findMoveElement(nodeEl): "node" for the node element itself, "wrap" for
\* its parent; no further ancestor carries an inline style.
FindMoveElement(d) ==
    IF HasInlinePositionProps(d.style) THEN "node"
    ELSE IF HasInlinePositionProps(d.wrapStyle) THEN "wrap"
    ELSE "node"

-----------------------------------------------------------------------------
(* State *)

VARIABLES
    \* the host: canvas.nodes of each view, the DOM of each view, the most
    \* recent leaf, the pointers held down, the clock
    hostNodes, dom, active, ptrs, now,
    \* the host: per view, which of the redraw methods its canvas object
    \* has, and whether a call of it throws
    canvasMethods,
    \* LockCardsPlugin: lockManager # null, the settings object
    loaded, settings,
    \* CanvasLockManager's fields
    lockedByCanvas, lockedStyleByCanvas, lockedMoveStyleByCanvas,
    lockedModelByCanvas, observer, observedCanvasPath, observedView,
    lastRestoreAtByCanvas, altDown, restoring, nodeIdByEl, moveElByNodeEl,
    inputAbort, enforcementRaf, enforcing, pointerIsDown, enforceUntil,
    blockedPointerId,
    \* the browser: connected observers and un-aborted listener groups per
    \* container, undelivered mutation records, pending frame callbacks
    connectedObs, liveListeners, records, rafPending,
    \* history: what the last step did (see Quiet), and what happened
    \* before (see NextHist)
    last, hist

vars == <<canvasMethods, hostNodes, dom, active, ptrs, now, loaded, settings, lockedByCanvas,
          lockedStyleByCanvas, lockedMoveStyleByCanvas, lockedModelByCanvas,
          observer, observedCanvasPath, observedView, lastRestoreAtByCanvas,
          altDown, restoring, nodeIdByEl, moveElByNodeEl, inputAbort,
          enforcementRaf, enforcing, pointerIsDown, enforceUntil,
          blockedPointerId, connectedObs, liveListeners, records, rafPending,
          last, hist>>

\* The state as one record, so that a handler is the composition of the
\* methods it calls.
Cur ==
    [hostNodes |-> hostNodes, dom |-> dom, active |-> active, ptrs |-> ptrs,
     canvasMethods |-> canvasMethods,
     now |-> now, loaded |-> loaded, settings |-> settings,
     lockedByCanvas |-> lockedByCanvas,
     lockedStyleByCanvas |-> lockedStyleByCanvas,
     lockedMoveStyleByCanvas |-> lockedMoveStyleByCanvas,
     lockedModelByCanvas |-> lockedModelByCanvas,
     observer |-> observer, observedCanvasPath |-> observedCanvasPath,
     observedView |-> observedView,
     lastRestoreAtByCanvas |-> lastRestoreAtByCanvas, altDown |-> altDown,
     restoring |-> restoring, nodeIdByEl |-> nodeIdByEl,
     moveElByNodeEl |-> moveElByNodeEl, inputAbort |-> inputAbort,
     enforcementRaf |-> enforcementRaf, enforcing |-> enforcing,
     pointerIsDown |-> pointerIsDown, enforceUntil |-> enforceUntil,
     blockedPointerId |-> blockedPointerId, connectedObs |-> connectedObs,
     liveListeners |-> liveListeners, records |-> records,
     rafPending |-> rafPending, last |-> last]

Elements == Views \X NodeIds

InputKinds == {"pointerdown", "pointermove", "pointerup", "arrow"}

\* The history after a step from state s to state t:
\*  forgotten  the geometry snapshot the last unlock of a node deleted
\*  writeAt    when restoreModelSnapshot last wrote a node (0: never)
\*  inputAt    when the last pointer or arrow-key event arrived
\*  released   the bypass key was held and has been released since
\*  fresh      the nodes the host moved or resized after the release and
\*             before a detector pass that covers them
\*  caught     the nodes among them that the step restored
NextHist(s, t) ==
    LET hostWrote == {el \in Elements : /\ t.last.kind = "none"
                                        /\ t.hostNodes[el[1]][el[2]] # s.hostNodes[el[1]][el[2]]}
        covered == IF t.last.kind = "tick" /\ ~t.last.bypass THEN Elements
                   ELSE IF t.last.kind = "observer" /\ ~t.last.bypass THEN t.last.targets
                   ELSE {}
        released == IF t.altDown THEN FALSE ELSE IF s.altDown THEN TRUE ELSE hist.released
    IN [forgotten |-> [c \in Canvases |-> [n \in NodeIds |->
                         IF IsSome(s.lockedModelByCanvas[c][n])
                            /\ t.lockedModelByCanvas[c][n] = None
                         THEN s.lockedModelByCanvas[c][n]
                         ELSE hist.forgotten[c][n]]],
        writeAt |-> [el \in Elements |->
                       IF el \in t.last.wrote THEN t.now ELSE hist.writeAt[el]],
        inputAt |-> IF t.last.kind \in InputKinds THEN t.now ELSE hist.inputAt,
        released |-> released,
        fresh |-> IF ~released THEN {} ELSE (hist.fresh \cup hostWrote) \ covered,
        caught |-> hist.fresh \cap t.last.wrote]

Commit(s) ==
    /\ hostNodes' = s.hostNodes
    /\ canvasMethods' = s.canvasMethods
    /\ dom' = s.dom
    /\ active' = s.active
    /\ ptrs' = s.ptrs
    /\ now' = s.now
    /\ loaded' = s.loaded
    /\ settings' = s.settings
    /\ lockedByCanvas' = s.lockedByCanvas
    /\ lockedStyleByCanvas' = s.lockedStyleByCanvas
    /\ lockedMoveStyleByCanvas' = s.lockedMoveStyleByCanvas
    /\ lockedModelByCanvas' = s.lockedModelByCanvas
    /\ observer' = s.observer
    /\ observedCanvasPath' = s.observedCanvasPath
    /\ observedView' = s.observedView
    /\ lastRestoreAtByCanvas' = s.lastRestoreAtByCanvas
    /\ altDown' = s.altDown
    /\ restoring' = s.restoring
    /\ nodeIdByEl' = s.nodeIdByEl
    /\ moveElByNodeEl' = s.moveElByNodeEl
    /\ inputAbort' = s.inputAbort
    /\ enforcementRaf' = s.enforcementRaf
    /\ enforcing' = s.enforcing
    /\ pointerIsDown' = s.pointerIsDown
    /\ enforceUntil' = s.enforceUntil
    /\ blockedPointerId' = s.blockedPointerId
    /\ connectedObs' = s.connectedObs
    /\ liveListeners' = s.liveListeners
    /\ records' = s.records
    /\ rafPending' = s.rafPending
    /\ last' = s.last
    /\ hist' = NextHist(Cur, s)

\* last: what the last step did.  kind names the handler that ran ("none"
\* for a step of the host).  For a detector pass ("observer", "tick"):
\* bypass, whether it ran with the bypass active; targets, the elements the
\* batch's records are for; seen, the elements <<view, id>> whose saved
\* geometry it compared with the live one; diverged, those it found
\* different; throttled, those shouldThrottleRestore suppressed; wrote, those
\* for which restoreModelSnapshot assigned a field; styled, the elements
\* whose inline style it set; redrawn, the redraw methods of the canvas
\* object it invoked, in order.  For "pointermove": suppressed.  For a command
\* ("toggle", "lock", "unlock", "unlockAll"): ids, the selection (for
\* unlockAll, the ids that were locked); wasLocked, the ids among them locked
\* before; justLocked, the ids the step before this one locked; count, the
\* number unlockAllInCanvas returned.
Quiet == [kind |-> "none", bypass |-> FALSE, targets |-> {}, seen |-> {},
          diverged |-> {}, throttled |-> {}, wrote |-> {}, styled |-> {},
          suppressed |-> FALSE, ids |-> {}, wasLocked |-> {}, justLocked |-> {},
          count |-> 0, redrawn |-> <<>>]

-----------------------------------------------------------------------------
(* The identity resolver, the locked set and the snapshot store *)

Range(seq) == {seq[i] : i \in 1..Len(seq)}

\* new Set(list) followed by Array.from: first occurrences, in order
RECURSIVE Dedup(_)
Dedup(seq) ==
    IF seq = <<>> THEN <<>>
    ELSE LET front == Dedup(SubSeq(seq, 1, Len(seq) - 1))
             lastId == seq[Len(seq)]
         IN IF lastId \in Range(front) THEN front ELSE Append(front, lastId)

\* resolveNodeElById(view, id) # null: the node has an element in the view
Resolves(s, v, id) == s.dom[v][id].present

\* resolveNodeElById's side effect when it finds the element
Learn(s, v, id) == [s EXCEPT !.nodeIdByEl = @ \cup {<<v, id>>}]

\* isLocked(canvasPath, nodeId)
IsLocked(s, c, id) == id \in Range(s.lockedByCanvas[c])

\* setLocked that pushes onto the array instead of adding to a Set
SetLocked_Push(s, c, id, locked) ==
    LET current == s.lockedByCanvas[c]
        next == IF locked THEN Append(current, id)
                ELSE SelectSeq(current, LAMBDA e : e # id)
    IN [s EXCEPT !.lockedByCanvas[c] = next]

\* setLocked(canvasPath, nodeId, locked)
SetLocked(s, c, id, locked) ==
    LET current == Dedup(s.lockedByCanvas[c])
        next == IF locked
                THEN IF id \in Range(current) THEN current ELSE Append(current, id)
                ELSE SelectSeq(current, LAMBDA e : e # id)
    IN [s EXCEPT !.lockedByCanvas[c] = next]

\* snapshotLockedNodeStyle(canvasPath, nodeId, nodeEl)
SnapshotLockedNodeStyle(s, v, id) ==
    [s EXCEPT !.lockedStyleByCanvas[PathOf(v)][id] = Some(s.dom[v][id].style)]

\* snapshotLockedMoveStyle(canvasPath, nodeId, nodeEl)
SnapshotLockedMoveStyle(s, v, id) ==
    LET d == s.dom[v][id]
        moveEl == FindMoveElement(d)
    IN [s EXCEPT !.moveElByNodeEl[<<v, id>>] = Some(moveEl),
                 !.lockedMoveStyleByCanvas[PathOf(v)][id] =
                     Some(IF moveEl = "wrap" THEN d.wrapStyle ELSE d.style)]

\* snapshotLockedNodeModel(ctx, nodeId)
SnapshotLockedNodeModel(s, v, id) ==
    LET snap == ReadModelSnapshot(s.hostNodes[v][id]) IN
    IF snap = None THEN s
    ELSE [s EXCEPT !.lockedModelByCanvas[PathOf(v)][id] = snap]

\* snapshotOnLock(ctx, nodeId)
SnapshotOnLock(s, v, id) ==
    IF ~Resolves(s, v, id) THEN s
    ELSE SnapshotLockedNodeModel(
             SnapshotLockedMoveStyle(
                 SnapshotLockedNodeStyle(Learn(s, v, id), v, id), v, id), v, id)

\* forgetOnUnlock without forgetLockedNodeModel
ForgetOnUnlock_KeepsModel(s, c, id) ==
    [s EXCEPT !.lockedStyleByCanvas[c][id] = None,
              !.lockedMoveStyleByCanvas[c][id] = None]

\* forgetOnUnlock without forgetLockedMoveStyle
ForgetOnUnlock_KeepsMoveStyle(s, c, id) ==
    [s EXCEPT !.lockedStyleByCanvas[c][id] = None,
              !.lockedModelByCanvas[c][id] = None]

\* forgetOnUnlock without forgetLockedNodeStyle
ForgetOnUnlock_KeepsStyle(s, c, id) ==
    [s EXCEPT !.lockedMoveStyleByCanvas[c][id] = None,
              !.lockedModelByCanvas[c][id] = None]

\* forgetOnUnlock(canvasPath, nodeId)
ForgetOnUnlock(s, c, id) ==
    [s EXCEPT !.lockedStyleByCanvas[c][id] = None,
              !.lockedMoveStyleByCanvas[c][id] = None,
              !.lockedModelByCanvas[c][id] = None]

RECURSIVE MarkLocked(_, _, _, _)
MarkLocked(s, v, ids, i) ==
    IF i > Len(ids) THEN s
    ELSE IF Resolves(s, v, ids[i])
    THEN MarkLocked([Learn(s, v, ids[i]) EXCEPT !.dom[v][ids[i]].cls = TRUE],
                    v, ids, i + 1)
    ELSE MarkLocked(s, v, ids, i + 1)

\* The loop over querySelectorAll(".canvas-node.lc-locked") that removes the class
RECURSIVE ClearLockedClasses(_, _, _)
ClearLockedClasses(s, v, todo) ==
    IF todo = {} THEN s
    ELSE LET n == CHOOSE n \in todo : TRUE
         IN ClearLockedClasses([s EXCEPT !.dom[v][n].cls = FALSE], v, todo \ {n})

\* applyLockedClasses without the loop that removes the class
ApplyLockedClasses_NoClear(s, v) ==
    MarkLocked(s, v, s.lockedByCanvas[PathOf(v)], 1)

\* applyLockedClasses(ctx)
ApplyLockedClasses(s, v) ==
    MarkLocked(ClearLockedClasses(s, v, NodeIds), v, s.lockedByCanvas[PathOf(v)], 1)

RECURSIVE ForgetAll(_, _, _, _)
ForgetAll(s, c, ids, i) ==
    IF i > Len(ids) THEN s
    ELSE ForgetAll(ForgetOnUnlock(s, c, ids[i]), c, ids, i + 1)

\* unlockAllInCanvas without the loop over forgetOnUnlock
UnlockAllInCanvas_KeepsSnapshots(s, v) ==
    IF Len(s.lockedByCanvas[PathOf(v)]) = 0 THEN s
    ELSE ApplyLockedClasses([s EXCEPT !.lockedByCanvas[PathOf(v)] = <<>>], v)

\* unlockAllInCanvas(ctx): the state afterwards
UnlockAllInCanvas(s, v) ==
    LET c == PathOf(v)
        lockedIds == s.lockedByCanvas[c]
    IN IF Len(lockedIds) = 0 THEN s
       ELSE ApplyLockedClasses(
                [ForgetAll(s, c, lockedIds, 1) EXCEPT !.lockedByCanvas[c] = <<>>], v)

\* unlockAllInCanvas(ctx): the number it returns
UnlockAllCount(s, v) == Len(s.lockedByCanvas[PathOf(v)])

\* The loop of primeLockedSnapshots without the tests for a missing snapshot
RECURSIVE PrimeIds_Overwrites(_, _, _, _)
PrimeIds_Overwrites(s, v, ids, i) ==
    IF i > Len(ids) THEN s
    ELSE LET id == ids[i]
             s1 == IF Resolves(s, v, id)
                   THEN SnapshotLockedNodeStyle(Learn(s, v, id), v, id)
                   ELSE s
         IN PrimeIds_Overwrites(SnapshotLockedNodeModel(s1, v, id), v, ids, i + 1)

RECURSIVE PrimeIds(_, _, _, _)
PrimeIds(s, v, ids, i) ==
    IF i > Len(ids) THEN s
    ELSE LET c == PathOf(v)
             id == ids[i]
             s1 == IF s.lockedStyleByCanvas[c][id] = None /\ Resolves(s, v, id)
                   THEN SnapshotLockedNodeStyle(Learn(s, v, id), v, id)
                   ELSE s
             s2 == IF s1.lockedModelByCanvas[c][id] = None
                   THEN SnapshotLockedNodeModel(s1, v, id)
                   ELSE s1
         IN PrimeIds(s2, v, ids, i + 1)

\* primeLockedSnapshots(ctx)
PrimeLockedSnapshots(s, v) == PrimeIds(s, v, s.lockedByCanvas[PathOf(v)], 1)

-----------------------------------------------------------------------------
(* Attaching and disposing the observation session *)

Dec(n) == IF n > 0 THEN n - 1 ELSE 0

\* observer.disconnect() of the observer the field holds: its undelivered
\* records are dropped
DisconnectObserver(s) ==
    IF s.observer = None THEN s
    ELSE [s EXCEPT !.connectedObs[Get(s.observer)] = Dec(@),
                   !.records = <<>>,
                   !.observer = None]

\* inputAbort?.abort()
AbortInput(s) ==
    IF s.inputAbort = None THEN s
    ELSE [s EXCEPT !.liveListeners[Get(s.inputAbort)] = Dec(@)]

\* attachInputGuardToCanvas(view)
AttachInputGuardToCanvas(s, v) ==
    [AbortInput(s) EXCEPT !.inputAbort = Some(v), !.liveListeners[v] = @ + 1]

\* attachStyleGuardToCanvas without this.observer?.disconnect()
AttachStyleGuardToCanvas_KeepsOld(s, v) ==
    IF IsSome(s.observer) /\ s.observedCanvasPath = Some(PathOf(v)) THEN s
    ELSE LET s1 == [s EXCEPT !.observedCanvasPath = Some(PathOf(v)),
                             !.observedView = Some(v)]
             s2 == AttachInputGuardToCanvas(s1, v)
         IN [s2 EXCEPT !.observer = Some(v), !.connectedObs[v] = @ + 1]

\* attachStyleGuardToCanvas(view, canvasPath)
AttachStyleGuardToCanvas(s, v) ==
    IF IsSome(s.observer) /\ s.observedCanvasPath = Some(PathOf(v)) THEN s
    ELSE LET s1 == [DisconnectObserver(s) EXCEPT
                        !.observedCanvasPath = Some(PathOf(v)),
                        !.observedView = Some(v)]
             s2 == AttachInputGuardToCanvas(s1, v)
         IN [s2 EXCEPT !.observer = Some(v), !.connectedObs[v] = @ + 1]

\* ensureGuardAttached(ctx)
EnsureGuardAttached(s, v) == AttachStyleGuardToCanvas(s, v)

\* dispose() without cancelAnimationFrame
Dispose_KeepsFrame(s) ==
    LET s1 == [AbortInput(DisconnectObserver(s)) EXCEPT !.inputAbort = None]
    IN [s1 EXCEPT !.enforcementRaf = None,
                  !.enforcing = FALSE]

\* dispose()
Dispose(s) ==
    LET s1 == [AbortInput(DisconnectObserver(s)) EXCEPT !.inputAbort = None]
    IN [s1 EXCEPT !.rafPending = IF IsSome(s.enforcementRaf)
                                 THEN @ \ {Get(s.enforcementRaf)} ELSE @,
                  !.enforcementRaf = None,
                  !.enforcing = FALSE]

-----------------------------------------------------------------------------
(* The divergence detectors *)

ThrottleMs == 50

ReleaseTailMs == 250

NudgeTailMs == 400

\* The bypass rule without the option
ShouldBypass_AltOnly(s) == s.altDown

\* The bypass rule with the key's state inverted
ShouldBypass_WhileUp(s) == s.settings.disableLockWhileAltDown /\ ~s.altDown

\* this.settings.disableLockWhileAltDown && this.altDown
ShouldBypass(s) == s.settings.disableLockWhileAltDown /\ s.altDown

\* A write of an element's inline style ("node": the node element, "wrap":
\* its parent).  A connected observer of the container gets a record when
\* the style changes.
WriteStyle(s, v, n, which, new) ==
    LET old == IF which = "wrap" THEN s.dom[v][n].wrapStyle ELSE s.dom[v][n].style
        s1 == IF which = "wrap" THEN [s EXCEPT !.dom[v][n].wrapStyle = new]
              ELSE [s EXCEPT !.dom[v][n].style = new]
    IN IF new # old /\ s.connectedObs[v] > 0
       THEN [s1 EXCEPT !.records = Append(@, <<v, n>>)]
       ELSE s1

\* restorePositionStyleOnly applied to an element of the node
RestoreStyleOf(s, v, n, which, saved) ==
    LET cur == IF which = "wrap" THEN s.dom[v][n].wrapStyle ELSE s.dom[v][n].style
        s1 == WriteStyle(s, v, n, which, RestorePositionStyleOnly(cur, saved))
    IN [s1 EXCEPT !.last.styled = @ \cup {<<v, n>>}]

\* restoreModelSnapshot on the node of a view, with its record in last
RestoreNode(s, v, n, snap) ==
    [s EXCEPT !.hostNodes[v][n] = RestoreModelSnapshot(@, snap),
              !.last.wrote = IF RestoreWrites(s.hostNodes[v][n], snap)
                                 THEN @ \cup {<<v, n>>} ELSE @,
              !.last.redrawn = IF IsSome(s.hostNodes[v][n])
                                   THEN @ \o RequestRedraw(s.canvasMethods[v], 1)
                                   ELSE @]

\* shouldThrottleRestore(nodeId) of the observer whose canvasPath is c
ShouldThrottleRestore(s, c, n) == s.now - s.lastRestoreAtByCanvas[c][n] < ThrottleMs

\* The observer's model path for one record: compare, throttle, restore
ObserverModelPath(s, c, n, savedModel) ==
    LET view == Get(s.observedView)
        currentModel == ReadModelSnapshot(s.hostNodes[view][n])
        differs == currentModel = None \/ ~IsSameSnapshot(Get(currentModel), savedModel)
        s1 == [s EXCEPT !.last.seen = @ \cup {<<view, n>>}]
    IN IF ~differs THEN s1
       ELSE LET s2 == [s1 EXCEPT !.last.diverged = @ \cup {<<view, n>>}] IN
            IF ShouldThrottleRestore(s2, c, n)
            THEN [s2 EXCEPT !.last.throttled = @ \cup {<<view, n>>}]
            ELSE RestoreNode([s2 EXCEPT !.lastRestoreAtByCanvas[c][n] = s.now],
                             view, n, savedModel)

\* The observer's style fallback for one record
ObserverStylePath(s, v, n, savedStyle, savedMoveStyle) ==
    LET known == s.moveElByNodeEl[<<v, n>>]
        moveEl == IF IsSome(known) THEN Get(known) ELSE "node"
    IN IF IsSome(savedMoveStyle) THEN RestoreStyleOf(s, v, n, moveEl, Get(savedMoveStyle))
       ELSE IF IsSome(savedStyle) THEN RestoreStyleOf(s, v, n, "node", Get(savedStyle))
       ELSE s

\* The body of the observer's loop without the test of the restoring mark
ObserverRecord_NoMark(s, ov, el) ==
    LET v == el[1]
        n == el[2]
        c == PathOf(ov)
        savedStyle == s.lockedStyleByCanvas[c][n]
        savedMoveStyle == s.lockedMoveStyleByCanvas[c][n]
        savedModel == s.lockedModelByCanvas[c][n]
    IN IF ~s.dom[v][n].present \/ ~s.dom[v][n].cls THEN s
       ELSE IF el \notin s.nodeIdByEl THEN s
       ELSE IF savedStyle = None /\ savedMoveStyle = None /\ savedModel = None THEN s
       ELSE LET s1 == [s EXCEPT !.restoring = @ \cup {el}] IN
            IF IsSome(savedModel) /\ IsSome(s1.observedView)
            THEN ObserverModelPath(s1, c, n, Get(savedModel))
            ELSE ObserverStylePath(s1, v, n, savedStyle, savedMoveStyle)

\* The body of the observer's loop for one mutation record, whose target
\* is an element of node n of the observed container; ov is the view the
\* observer was created for.
ObserverRecord(s, ov, el) ==
    LET v == el[1]
        n == el[2]
        c == PathOf(ov)
        savedStyle == s.lockedStyleByCanvas[c][n]
        savedMoveStyle == s.lockedMoveStyleByCanvas[c][n]
        savedModel == s.lockedModelByCanvas[c][n]
    IN IF ~s.dom[v][n].present \/ ~s.dom[v][n].cls THEN s
       ELSE IF el \notin s.nodeIdByEl THEN s
       ELSE IF savedStyle = None /\ savedMoveStyle = None /\ savedModel = None THEN s
       ELSE IF el \in s.restoring THEN s
       ELSE LET s1 == [s EXCEPT !.restoring = @ \cup {el}] IN
            IF IsSome(savedModel) /\ IsSome(s1.observedView)
            THEN ObserverModelPath(s1, c, n, Get(savedModel))
            ELSE ObserverStylePath(s1, v, n, savedStyle, savedMoveStyle)

RECURSIVE ObserverBatch(_, _, _, _)
ObserverBatch(s, ov, batch, i) ==
    IF i > Len(batch) THEN s
    ELSE ObserverBatch(ObserverRecord(s, ov, batch[i]), ov, batch, i + 1)

\* The callback that, under the bypass, takes the geometry of the first
\* record's node as its snapshot
ObserverCallback_Adopts(s) ==
    LET batch == s.records
        s0 == [s EXCEPT !.records = <<>>,
                        !.last = [Quiet EXCEPT !.kind = "observer",
                                               !.bypass = ShouldBypass(s),
                                               !.targets = Range(batch)]]
    IN IF ShouldBypass(s) THEN SnapshotLockedNodeModel(s0, batch[1][1], batch[1][2])
       ELSE IF s.observedView = None THEN s0
       ELSE ObserverBatch(s0, Get(s.observer), batch, 1)

\* The MutationObserver callback, called with the undelivered records
ObserverCallback(s) ==
    LET batch == s.records
        s0 == [s EXCEPT !.records = <<>>,
                        !.last = [Quiet EXCEPT !.kind = "observer",
                                               !.bypass = ShouldBypass(s),
                                               !.targets = Range(batch)]]
    IN IF ShouldBypass(s) THEN s0
       ELSE IF s.observedView = None THEN s0
       ELSE ObserverBatch(s0, Get(s.observer), batch, 1)

\* The loop's comparison without the tolerance
IsSameSnapshotLoop_Exact(a, b) ==
    a.x = b.x /\ a.y = b.y /\ a.w = b.w /\ a.h = b.h

\* isSameSnapshot(a, b), the copy in enforceLockedNodesOnce
IsSameSnapshotLoop(a, b) ==
    IF ~Close(a.x, b.x) \/ ~Close(a.y, b.y) THEN FALSE
    ELSE IF (a.w = None \/ b.w = None) /\ a.w # b.w THEN FALSE
    ELSE IF IsSome(a.w) /\ IsSome(b.w) /\ ~Close(Get(a.w), Get(b.w)) THEN FALSE
    ELSE IF (a.h = None \/ b.h = None) /\ a.h # b.h THEN FALSE
    ELSE IF IsSome(a.h) /\ IsSome(b.h) /\ ~Close(Get(a.h), Get(b.h)) THEN FALSE
    ELSE TRUE

\* The enforcement loop's model path for one locked id
EnforceModelPath(s, view, n, savedModel) ==
    LET currentModel == ReadModelSnapshot(s.hostNodes[view][n])
        differs == currentModel = None
                   \/ ~IsSameSnapshotLoop(Get(currentModel), savedModel)
        s1 == [s EXCEPT !.last.seen = @ \cup {<<view, n>>}]
    IN IF ~differs THEN s1
       ELSE RestoreNode([s1 EXCEPT !.last.diverged = @ \cup {<<view, n>>}],
                        view, n, savedModel)

\* The body of enforceLockedNodesOnce's loop for one locked id
EnforceNode(s, view, c, n) ==
    IF ~Resolves(s, view, n) THEN s
    ELSE LET s1 == Learn(s, view, n)
             savedModel == s1.lockedModelByCanvas[c][n]
             savedMoveStyle == s1.lockedMoveStyleByCanvas[c][n]
             savedStyle == s1.lockedStyleByCanvas[c][n]
             known == s1.moveElByNodeEl[<<view, n>>]
             moveEl == IF IsSome(known) THEN Get(known)
                       ELSE FindMoveElement(s1.dom[view][n])
         IN IF IsSome(savedModel) THEN EnforceModelPath(s1, view, n, Get(savedModel))
            ELSE IF IsSome(savedMoveStyle)
            THEN RestoreStyleOf([s1 EXCEPT !.moveElByNodeEl[<<view, n>>] = Some(moveEl)],
                                view, n, moveEl, Get(savedMoveStyle))
            ELSE IF IsSome(savedStyle)
            THEN RestoreStyleOf(s1, view, n, "node", Get(savedStyle))
            ELSE s1

\* The loop of enforceLockedNodesOnce leaving at the first id whose element
\* does not resolve
RECURSIVE EnforceIds_StopsAtAbsent(_, _, _, _, _)
EnforceIds_StopsAtAbsent(s, view, c, ids, i) ==
    IF i > Len(ids) THEN s
    ELSE IF ~Resolves(s, view, ids[i]) THEN s
    ELSE EnforceIds_StopsAtAbsent(EnforceNode(s, view, c, ids[i]), view, c, ids, i + 1)

RECURSIVE EnforceIds(_, _, _, _, _)
EnforceIds(s, view, c, ids, i) ==
    IF i > Len(ids) THEN s
    ELSE EnforceIds(EnforceNode(s, view, c, ids[i]), view, c, ids, i + 1)

\* enforceLockedNodesOnce()
EnforceLockedNodesOnce(s) ==
    IF s.observedView = None \/ s.observedCanvasPath = None THEN s
    ELSE LET c == Get(s.observedCanvasPath) IN
         EnforceIds(s, Get(s.observedView), c, s.lockedByCanvas[c], 1)

Max(a, b) == IF a >= b THEN a ELSE b

\* requestAnimationFrame: the handle of the new frame callback
FreshHandle(s) ==
    CHOOSE h \in 1..(Cardinality(s.rafPending) + 1) :
        /\ h \notin s.rafPending
        /\ \A k \in 1..(h - 1) : k \in s.rafPending

\* startEnforcementLoop that assigns the new deadline instead of the maximum
StartEnforcementLoop_Overwrite(s, until) ==
    LET s1 == [s EXCEPT !.enforceUntil = until] IN
    IF s1.enforcing THEN s1
    ELSE [s1 EXCEPT !.enforcing = TRUE,
                    !.enforcementRaf = Some(FreshHandle(s1)),
                    !.rafPending = @ \cup {FreshHandle(s1)}]

\* startEnforcementLoop without the return while the loop runs
StartEnforcementLoop_NoGuard(s, until) ==
    LET s1 == [s EXCEPT !.enforceUntil = Max(@, until)] IN
    [s1 EXCEPT !.enforcing = TRUE,
               !.enforcementRaf = Some(FreshHandle(s1)),
               !.rafPending = @ \cup {FreshHandle(s1)}]

\* startEnforcementLoop(until)
StartEnforcementLoop(s, until) ==
    LET s1 == [s EXCEPT !.enforceUntil = Max(@, until)] IN
    IF s1.enforcing THEN s1
    ELSE [s1 EXCEPT !.enforcing = TRUE,
                    !.enforcementRaf = Some(FreshHandle(s1)),
                    !.rafPending = @ \cup {FreshHandle(s1)}]

\* tick(), the frame callback whose handle is h
Tick(s, h) ==
    LET s0 == [s EXCEPT !.rafPending = @ \ {h}] IN
    IF ~s0.enforcing THEN s0
    ELSE LET s1 == [s0 EXCEPT !.last = [Quiet EXCEPT !.kind = "tick",
                                                     !.bypass = ShouldBypass(s)]]
             s2 == IF ~ShouldBypass(s1) THEN EnforceLockedNodesOnce(s1) ELSE s1
         IN IF s2.pointerIsDown \/ s2.now < s2.enforceUntil
            THEN [s2 EXCEPT !.enforcementRaf = Some(FreshHandle(s2)),
                            !.rafPending = @ \cup {FreshHandle(s2)}]
            ELSE [s2 EXCEPT !.enforcing = FALSE,
                            !.enforcementRaf = None,
                            !.enforceUntil = 0]

-----------------------------------------------------------------------------
(* The input guard *)

\* onPointerDown(e) of the listener group of view iv; target is the node
\* whose element holds e.target, or "background"
OnPointerDown(s, iv, pid, target) ==
    LET s1 == [s EXCEPT !.pointerIsDown = TRUE] IN
    IF ShouldBypass(s1) THEN s1
    ELSE LET onLocked == /\ target \in NodeIds
                         /\ s1.dom[iv][target].present
                         /\ s1.dom[iv][target].cls
             s2 == IF onLocked THEN [s1 EXCEPT !.blockedPointerId = Some(pid)] ELSE s1
         IN StartEnforcementLoop(s2, Infinity)

\* onPointerMove without the comparison of the pointer ids
MoveSuppressed_AnyPointer(s, pid) ==
    /\ ~ShouldBypass(s)
    /\ IsSome(s.blockedPointerId)

\* onPointerMove(e): whether the event is suppressed
MoveSuppressed(s, pid) ==
    /\ ~ShouldBypass(s)
    /\ IsSome(s.blockedPointerId)
    /\ pid = Get(s.blockedPointerId)

\* onPointerUp without the bypass test
OnPointerUp_NoBypass(s) ==
    LET s1 == [s EXCEPT !.pointerIsDown = FALSE, !.blockedPointerId = None] IN
    StartEnforcementLoop(s1, s1.now + ReleaseTailMs)

\* onPointerUp(), also the pointercancel listener
OnPointerUp(s) ==
    LET s1 == [s EXCEPT !.pointerIsDown = FALSE, !.blockedPointerId = None] IN
    IF ShouldBypass(s1) THEN s1
    ELSE StartEnforcementLoop(s1, s1.now + ReleaseTailMs)

\* onKeyDown(e) for an arrow key
OnArrowKey(s) ==
    IF ShouldBypass(s) THEN s ELSE StartEnforcementLoop(s, s.now + NudgeTailMs)

-----------------------------------------------------------------------------
(* The command layer (main.ts) *)

RECURSIVE SetLockedAll(_, _, _, _, _)
SetLockedAll(s, c, ids, locked, i) ==
    IF i > Len(ids) THEN s
    ELSE SetLockedAll(SetLocked(s, c, ids[i], locked), c, ids, locked, i + 1)

RECURSIVE SnapshotOrForgetAll(_, _, _, _, _)
SnapshotOrForgetAll(s, v, ids, locked, i) ==
    IF i > Len(ids) THEN s
    ELSE SnapshotOrForgetAll(IF locked THEN SnapshotOnLock(s, v, ids[i])
                             ELSE ForgetOnUnlock(s, PathOf(v), ids[i]),
                             v, ids, locked, i + 1)

\* The toggle that locks only when no selected node is locked
ToggleCommand_UnlocksIfAnyLocked(s, v, selectedIds) ==
    LET c == PathOf(v)
        s1 == EnsureGuardAttached(s, v)
        noneLocked == \A i \in 1..Len(selectedIds) : ~IsLocked(s1, c, selectedIds[i])
        s2 == SetLockedAll(s1, c, selectedIds, noneLocked, 1)
        s3 == SnapshotOrForgetAll(s2, v, selectedIds, noneLocked, 1)
    IN ApplyLockedClasses(s3, v)

\* toggle-lock-selected-cards, with the selection selectedIds of view v
ToggleCommand(s, v, selectedIds) ==
    LET c == PathOf(v)
        s1 == EnsureGuardAttached(s, v)
        anyUnlocked == \E i \in 1..Len(selectedIds) : ~IsLocked(s1, c, selectedIds[i])
        s2 == SetLockedAll(s1, c, selectedIds, anyUnlocked, 1)
        s3 == SnapshotOrForgetAll(s2, v, selectedIds, anyUnlocked, 1)
    IN ApplyLockedClasses(s3, v)

RECURSIVE LockEach(_, _, _, _)
LockEach(s, v, ids, i) ==
    IF i > Len(ids) THEN s
    ELSE LockEach(SnapshotOnLock(SetLocked(s, PathOf(v), ids[i], TRUE), v, ids[i]),
                  v, ids, i + 1)

\* lock-selected-cards
LockCommand(s, v, selectedIds) ==
    ApplyLockedClasses(LockEach(EnsureGuardAttached(s, v), v, selectedIds, 1), v)

RECURSIVE UnlockEach(_, _, _, _)
UnlockEach(s, v, ids, i) ==
    IF i > Len(ids) THEN s
    ELSE UnlockEach(ForgetOnUnlock(SetLocked(s, PathOf(v), ids[i], FALSE),
                                   PathOf(v), ids[i]),
                    v, ids, i + 1)

\* unlock-selected-cards that only takes the ids out of the locked list
UnlockCommand_ListOnly(s, v, selectedIds) ==
    SetLockedAll(EnsureGuardAttached(s, v), PathOf(v), selectedIds, FALSE, 1)

\* unlock-selected-cards
UnlockCommand(s, v, selectedIds) ==
    ApplyLockedClasses(UnlockEach(EnsureGuardAttached(s, v), v, selectedIds, 1), v)

\* unlock-all-cards-in-active-canvas
UnlockAllCommand(s, v) ==
    [UnlockAllInCanvas(s, v) EXCEPT !.last = [Quiet EXCEPT !.kind = "unlockAll",
                                                 !.count = UnlockAllCount(s, v)]]

\* the active-leaf-change handler, with the context getActiveCanvasContext gives
OnActiveLeafChange(s, v) ==
    PrimeLockedSnapshots(ApplyLockedClasses(EnsureGuardAttached(s, v), v), v)

\* The selections of a view: the non-empty lists of its node ids
Selections(v) ==
    {seq \in UNION {[1..k -> NodesOf(v)] : k \in 1..Cardinality(NodesOf(v))} :
        \A i, j \in 1..Len(seq) : i # j => seq[i] # seq[j]}

-----------------------------------------------------------------------------
(* The initial state: the plugin loaded with no canvas open *)

\* A node whose geometry is on the node object itself, with width/height
TopNode == [EmptyObj EXCEPT !.top = Some([EmptyBase EXCEPT !.x = Some(0), !.y = Some(0),
                                              !.width = Some(0), !.height = Some(0)])]

\* A node whose geometry is in its field pos, without a size
PosNode == [EmptyObj EXCEPT !.pos = Some([EmptyBase EXCEPT !.x = Some(0), !.y = Some(0)])]

\* canvas.nodes.get(n) of view v: the canvas of v1 and v3 holds a node of
\* each kind, the node of v2 exposes no geometry (its lock rests on the inline styles)
InitNodeObj(v, n) ==
    IF n \notin NodesOf(v) THEN None
    ELSE IF v # "v2" /\ n = "a" THEN Some(TopNode)
    ELSE IF v # "v2" THEN Some(PosNode)
    ELSE Some(EmptyObj)

InitStyle == <<<<"transform", "t0">>, <<"opacity", "o1">>>>

HostTransforms == {"t0", "t1"}

InitEl(v, n) ==
    IF n \in NodesOf(v)
    THEN [present |-> TRUE, cls |-> FALSE, style |-> InitStyle, wrapStyle |-> <<>>]
    ELSE [present |-> FALSE, cls |-> FALSE, style |-> <<>>, wrapStyle |-> <<>>]

\* The locked-id mappings the persistence collaborator may load
LoadedLocks ==
    {[c \in Canvases |-> <<>>],
     [c \in Canvases |-> IF c = "c1" THEN <<"b">> ELSE <<"a">>]}

NoSnapshots == [c \in Canvases |-> [n \in NodeIds |-> None]]

\* The state after onload with no canvas open
Boot(locks) ==
    [hostNodes |-> [v \in Views |-> [n \in NodeIds |-> InitNodeObj(v, n)]],
     dom |-> [v \in Views |-> [n \in NodeIds |-> InitEl(v, n)]],
     canvasMethods |-> [v \in Views |-> HostCanvasMethods],
     active |-> None, ptrs |-> {}, now |-> StartTime, loaded |-> TRUE,
     settings |-> [disableLockWhileAltDown |-> TRUE],
     lockedByCanvas |-> locks,
     lockedStyleByCanvas |-> NoSnapshots,
     lockedMoveStyleByCanvas |-> NoSnapshots,
     lockedModelByCanvas |-> NoSnapshots,
     observer |-> None, observedCanvasPath |-> None, observedView |-> None,
     lastRestoreAtByCanvas |-> [c \in Canvases |-> [n \in NodeIds |-> 0]],
     altDown |-> FALSE, restoring |-> {}, nodeIdByEl |-> {},
     moveElByNodeEl |-> [el \in Elements |-> None],
     inputAbort |-> None, enforcementRaf |-> None, enforcing |-> FALSE,
     pointerIsDown |-> FALSE, enforceUntil |-> 0, blockedPointerId |-> None,
     connectedObs |-> [v \in Views |-> 0], liveListeners |-> [v \in Views |-> 0],
     records |-> <<>>, rafPending |-> {}, last |-> Quiet]

InitHist == [forgotten |-> NoSnapshots, writeAt |-> [el \in Elements |-> 0],
             inputAt |-> 0, released |-> FALSE, fresh |-> {}, caught |-> {}]

\* The variables hold state s, with no history
Install(s) ==
    /\ hostNodes = s.hostNodes
    /\ canvasMethods = s.canvasMethods
    /\ dom = s.dom
    /\ active = s.active
    /\ ptrs = s.ptrs
    /\ now = s.now
    /\ loaded = s.loaded
    /\ settings = s.settings
    /\ lockedByCanvas = s.lockedByCanvas
    /\ lockedStyleByCanvas = s.lockedStyleByCanvas
    /\ lockedMoveStyleByCanvas = s.lockedMoveStyleByCanvas
    /\ lockedModelByCanvas = s.lockedModelByCanvas
    /\ observer = s.observer
    /\ observedCanvasPath = s.observedCanvasPath
    /\ observedView = s.observedView
    /\ lastRestoreAtByCanvas = s.lastRestoreAtByCanvas
    /\ altDown = s.altDown
    /\ restoring = s.restoring
    /\ nodeIdByEl = s.nodeIdByEl
    /\ moveElByNodeEl = s.moveElByNodeEl
    /\ inputAbort = s.inputAbort
    /\ enforcementRaf = s.enforcementRaf
    /\ enforcing = s.enforcing
    /\ pointerIsDown = s.pointerIsDown
    /\ enforceUntil = s.enforceUntil
    /\ blockedPointerId = s.blockedPointerId
    /\ connectedObs = s.connectedObs
    /\ liveListeners = s.liveListeners
    /\ records = s.records
    /\ rafPending = s.rafPending
    /\ last = Quiet
    /\ hist = InitHist

Init == \E locks \in LoadedLocks : Install(Boot(locks))

-----------------------------------------------------------------------------
(* Steps.  A task runs when the microtasks of the previous one are done:   *)
(* no mutation record is undelivered and no clearing of a restoring mark   *)
(* is queued.  The host's own code, and what it calls synchronously, may   *)
(* go on in the task that queued a record.                                 *)

Start == [Cur EXCEPT !.last = Quiet]

NewTask == records = <<>> /\ restoring = {}

SameTask == restoring = {}

\* The base object the host keeps a node's geometry in
GeometryMode(v, n) == Get(ReadModelSnapshot(hostNodes[v][n])).mode

\* The host moves a node: x and y of its geometry
HostMove(v, n, k) ==
    /\ SameTask
    /\ IsSome(ReadModelSnapshot(hostNodes[v][n]))
    /\ LET m == GeometryMode(v, n)
           b == Get(Get(hostNodes[v][n])[m])
           b1 == [b EXCEPT !.x = Some(k), !.y = Some(k)]
       IN /\ b1 # b
          /\ Commit([Start EXCEPT !.hostNodes[v][n] = Some([Get(@) EXCEPT ![m] = Some(b1)])])

\* The host resizes a node: width and height of its geometry
HostResize(v, n, k) ==
    /\ SameTask
    /\ IsSome(ReadModelSnapshot(hostNodes[v][n]))
    /\ LET m == GeometryMode(v, n)
           b == Get(Get(hostNodes[v][n])[m])
           b1 == [b EXCEPT !.width = Some(k), !.height = Some(k)]
       IN /\ IsSome(b.width) /\ IsSome(b.height)
          /\ b1 # b
          /\ Commit([Start EXCEPT !.hostNodes[v][n] = Some([Get(@) EXCEPT ![m] = Some(b1)])])

\* The host sets the transform of a node element's inline style
HostSetStyle(v, n, val) ==
    /\ SameTask
    /\ Len(records) < MaxRecords
    /\ dom[v][n].present
    /\ GetPropertyValue(dom[v][n].style, "transform") # val
    /\ Commit(WriteStyle(Start, v, n, "node",
                         SetProperty(dom[v][n].style, "transform", val)))

\* The host sets the inline style of an element inside a node element
\* (a handle, a label): the observer of the container gets a record
HostTouch(v, n) ==
    /\ SameTask
    /\ Len(records) < MaxRecords
    /\ dom[v][n].present
    /\ connectedObs[v] > 0
    /\ Commit([Start EXCEPT !.records = Append(@, <<v, n>>)])

\* The host replaces a node object by one with no numeric geometry field
HostDropGeometry(v, n) ==
    /\ SameTask
    /\ IsSome(hostNodes[v][n])
    /\ hostNodes[v][n] # Some(EmptyObj)
    /\ Commit([Start EXCEPT !.hostNodes[v][n] = Some(EmptyObj)])

\* The host takes a node object out of canvas.nodes
HostDropNode(v, n) ==
    /\ SameTask
    /\ IsSome(hostNodes[v][n])
    /\ Commit([Start EXCEPT !.hostNodes[v][n] = None])

\* The host sets the whole inline style of a node element or of its wrapper
HostRestyle(v, n, which, st) ==
    /\ SameTask
    /\ Len(records) < MaxRecords
    /\ dom[v][n].present
    /\ st # (IF which = "wrap" THEN dom[v][n].wrapStyle ELSE dom[v][n].style)
    /\ Commit(WriteStyle(Start, v, n, which, st))

\* The host removes a node's element (a re-render, a node scrolled out)
HostRemoveEl(v, n) ==
    /\ NewTask
    /\ dom[v][n].present
    /\ Commit([Start EXCEPT !.dom[v][n].present = FALSE,
                            !.dom[v][n].cls = FALSE,
                            !.nodeIdByEl = @ \ {<<v, n>>},
                            !.moveElByNodeEl[<<v, n>>] = None])

\* The host renders a new element for a node
HostAddEl(v, n) ==
    /\ NewTask
    /\ n \in NodesOf(v)
    /\ ~dom[v][n].present
    /\ Commit([Start EXCEPT !.dom[v][n].present = TRUE])

\* The context getActiveCanvasContext gives changes with no
\* active-leaf-change event (a canvas leaf closed or opened in the background)
HostSwitch(v) ==
    /\ NewTask
    /\ active # Some(v)
    /\ Commit([Start EXCEPT !.active = Some(v)])

\* The clock: step ms pass, within maxElapsed ms of the start
Advance(step, maxElapsed) ==
    /\ SameTask
    /\ now + step <= StartTime + maxElapsed
    /\ Commit([Start EXCEPT !.now = @ + step])

\* active-leaf-change, the context being view v afterwards
ActiveLeafChange(v) ==
    /\ NewTask
    /\ loaded
    /\ Commit(OnActiveLeafChange([Start EXCEPT !.active = Some(v)], v))

\* Whether the step recorded in l locked ids, and which it newly locked
LockedBy(l) ==
    IF l.kind = "lock" \/ (l.kind = "toggle" /\ l.wasLocked # l.ids)
    THEN l.ids \ l.wasLocked ELSE {}

\* The record of a command on the selection sel of the active view
CommandRecord(kind, sel) ==
    [Quiet EXCEPT !.kind = kind, !.ids = Range(sel),
                  !.wasLocked = {id \in Range(sel) : IsLocked(Cur, PathOf(Get(active)), id)},
                  !.justLocked = LockedBy(last)]

Toggle(sel) ==
    /\ SameTask /\ loaded /\ IsSome(active)
    /\ sel \in Selections(Get(active))
    /\ Commit([ToggleCommand(Start, Get(active), sel) EXCEPT
                  !.last = CommandRecord("toggle", sel)])

Lock(sel) ==
    /\ SameTask /\ loaded /\ IsSome(active)
    /\ sel \in Selections(Get(active))
    /\ Commit([LockCommand(Start, Get(active), sel) EXCEPT
                  !.last = CommandRecord("lock", sel)])

Unlock(sel) ==
    /\ SameTask /\ loaded /\ IsSome(active)
    /\ sel \in Selections(Get(active))
    /\ Commit([UnlockCommand(Start, Get(active), sel) EXCEPT
                  !.last = CommandRecord("unlock", sel)])

UnlockAll ==
    /\ SameTask /\ loaded /\ IsSome(active)
    /\ LET t == UnlockAllCommand(Start, Get(active)) IN
       Commit([t EXCEPT
                  !.last = [CommandRecord("unlockAll", lockedByCanvas[PathOf(Get(active))])
                               EXCEPT !.count = t.last.count]])

\* The setting tab's toggle: saveSettings -> setSettings
SetSettings(b) ==
    /\ NewTask /\ loaded
    /\ settings.disableLockWhileAltDown # b
    /\ Commit([Start EXCEPT !.settings = [disableLockWhileAltDown |-> b]])

\* onunload
Unload ==
    /\ NewTask /\ loaded
    /\ Commit([Dispose(Start) EXCEPT !.loaded = FALSE])

\* ensureGuardAttached(ctx) called on the manager
ApiEnsureGuardAttached(v) ==
    /\ NewTask
    /\ Commit(EnsureGuardAttached(Start, v))

\* dispose() called on the manager
ApiDispose ==
    /\ NewTask
    /\ Commit(Dispose(Start))

\* keydown / keyup of the Alt key (installAltKeyTracking)
AltKey(down) ==
    /\ NewTask /\ loaded
    /\ altDown # down
    /\ Commit([Start EXCEPT !.altDown = down])

\* pointerdown: inside the guarded container (on a node or the background)
\* or elsewhere
PointerDown(pid, target) ==
    /\ NewTask
    /\ pid \notin ptrs
    /\ LET s0 == [Start EXCEPT !.ptrs = @ \cup {pid}] IN
       IF target = "elsewhere" \/ inputAbort = None THEN Commit(s0)
       ELSE /\ target \in NodeIds => target \in NodesOf(Get(inputAbort))
            /\ Commit(OnPointerDown([s0 EXCEPT !.last.kind = "pointerdown"],
                                    Get(inputAbort), pid, target))

PointerMove(pid) ==
    /\ NewTask
    /\ IsSome(inputAbort)
    /\ Commit([Start EXCEPT !.last = [Quiet EXCEPT !.kind = "pointermove",
                                        !.suppressed = MoveSuppressed(Cur, pid)]])

\* pointerup or pointercancel
PointerUp(pid) ==
    /\ NewTask
    /\ pid \in ptrs
    /\ LET s0 == [Start EXCEPT !.ptrs = @ \ {pid}] IN
       IF inputAbort = None THEN Commit(s0)
       ELSE Commit(OnPointerUp([s0 EXCEPT !.last.kind = "pointerup"]))

ArrowKey ==
    /\ NewTask
    /\ IsSome(inputAbort)
    /\ Commit(OnArrowKey([Start EXCEPT !.last.kind = "arrow"]))

\* A frame: the pending frame callback runs
Frame ==
    /\ NewTask
    /\ \E h \in rafPending : Commit(Tick(Start, h))

\* The microtask that delivers the mutation records
Deliver ==
    /\ records # <<>>
    /\ IsSome(observer)
    /\ Commit(ObserverCallback(Cur))

\* The microtasks queueMicrotask(() => this.restoring.delete(nodeEl))
ClearRestoring ==
    /\ records = <<>>
    /\ restoring # {}
    /\ Commit([Start EXCEPT !.restoring = {}])

-----------------------------------------------------------------------------
(* The whole system *)

LoopStep == 50

LoopElapsed == 450

AllSelections == UNION {Selections(v) : v \in Views}

Targets == NodeIds \cup {"background", "elsewhere"}

Next ==
    \/ \E v \in Views, n \in NodeIds, k \in 0..MaxCoord : HostMove(v, n, k)
    \/ \E v \in Views, n \in NodeIds, k \in 0..MaxCoord : HostResize(v, n, k)
    \/ \E v \in Views, n \in NodeIds, val \in HostTransforms : HostSetStyle(v, n, val)
    \/ \E v \in Views, n \in NodeIds : HostTouch(v, n)
    \/ \E v \in Views, n \in NodeIds : HostRemoveEl(v, n)
    \/ \E v \in Views, n \in NodeIds : HostAddEl(v, n)
    \/ \E v \in Views : HostSwitch(v)
    \/ Advance(TimeStep, LoopElapsed)
    \/ \E v \in Views : ActiveLeafChange(v)
    \/ \E sel \in AllSelections : Toggle(sel)
    \/ \E sel \in AllSelections : Lock(sel)
    \/ \E sel \in AllSelections : Unlock(sel)
    \/ UnlockAll
    \/ \E b \in BOOLEAN : SetSettings(b)
    \/ Unload
    \/ \E down \in BOOLEAN : AltKey(down)
    \/ \E pid \in Pointers, target \in Targets : PointerDown(pid, target)
    \/ \E pid \in Pointers : PointerMove(pid)
    \/ \E pid \in Pointers : PointerUp(pid)
    \/ ArrowKey
    \/ Frame
    \/ Deliver
    \/ ClearRestoring

Spec == Init /\ [][Next]_vars

-----------------------------------------------------------------------------
(* Scenarios: the system from a state it reaches, with the part of the     *)
(* environment a group of properties is about.                             *)

\* The detectors at work: view v1 is active, both its nodes were locked by
\* lock-selected-cards, and a pointer is held down on the background, so
\* that the enforcement loop runs.  The host moves, resizes and restyles
\* the nodes, the bypass key goes down and up, the option is switched.
DetectStart(v, sel) ==
    LET s1 == OnActiveLeafChange([Boot([c \in Canvases |-> <<>>]) EXCEPT
                                     !.active = Some(v)], v)
        s2 == LockCommand(s1, v, sel)
    IN OnPointerDown([s2 EXCEPT !.ptrs = {1}], v, 1, "background")

InitDetect == Install(DetectStart("v1", <<"a", "b">>))

NextDetect ==
    \/ \E n \in NodeIds, k \in 0..MaxCoord : HostMove("v1", n, k)
    \/ \E n \in NodeIds, k \in 0..MaxCoord : HostResize("v1", n, k)
    \/ \E n \in NodeIds : HostTouch("v1", n)
    \/ Advance(TimeStep, MaxElapsed)
    \/ Frame
    \/ Deliver
    \/ ClearRestoring

SpecDetect == InitDetect /\ [][NextDetect]_vars

\* The bypass: the same in either view (the node of v2 is guarded by its
\* inline styles only), with the bypass key going down and up and the option
\* switched in the setting tab.
InitBypass ==
    \/ Install(DetectStart("v1", <<"a", "b">>))
    \/ Install(DetectStart("v2", <<"a">>))

NextBypass ==
    \/ \E v \in OwnViews, n \in NodeIds, k \in 0..MaxCoord :
          observedView = Some(v) /\ HostMove(v, n, k)
    \/ \E v \in OwnViews, n \in NodeIds, val \in HostTransforms :
          observedView = Some(v) /\ HostSetStyle(v, n, val)
    \/ \E v \in OwnViews, n \in NodeIds : HostTouch(v, n)
    \/ \E b \in BOOLEAN : SetSettings(b)
    \/ \E down \in BOOLEAN : AltKey(down)
    \/ Frame
    \/ Deliver
    \/ ClearRestoring

SpecBypass == InitBypass /\ [][NextBypass]_vars

\* The commands: from the loaded plugin, canvases are opened, the host moves
\* and re-renders nodes, and the four commands run on the active canvas.
MaxMoved == 1

\* The selections tried: one node, or both in the order of the canvas
CommandSelections == {<<"a">>, <<"b">>, <<"a", "b">>}

\* Loaded with a node locked in each canvas
InitCommands == Install(Boot([c \in Canvases |-> IF c = "c1" THEN <<"b">> ELSE <<"a">>]))

NextCommands ==
    \/ \E v \in OwnViews : ActiveLeafChange(v)
    \/ \E k \in 0..MaxMoved : active = Some("v1") /\ HostMove("v1", "a", k)
    \/ HostRemoveEl("v1", "a")
    \/ HostAddEl("v1", "a")
    \/ \E sel \in CommandSelections : Toggle(sel)
    \/ \E sel \in CommandSelections : Lock(sel)
    \/ \E sel \in CommandSelections : Unlock(sel)
    \/ UnlockAll

SpecCommands == InitCommands /\ [][NextCommands]_vars

\* The enforcement loop: canvas c1 is open in v1 with node b locked; pointers
\* go down, move and up, arrow keys are pressed, the bypass key goes down and
\* up, frames run and time passes.
InitLoop ==
    Install(OnActiveLeafChange(
                [Boot([c \in Canvases |-> IF c = "c1" THEN <<"b">> ELSE <<>>]) EXCEPT
                    !.active = Some("v1")], "v1"))

NextLoop ==
    \/ \E pid \in Pointers, target \in Targets : PointerDown(pid, target)
    \/ \E pid \in Pointers : PointerMove(pid)
    \/ \E pid \in Pointers : PointerUp(pid)
    \/ ArrowKey
    \/ \E down \in BOOLEAN : AltKey(down)
    \/ Advance(LoopStep, LoopElapsed)
    \/ Frame

SpecLoop == InitLoop /\ [][NextLoop]_vars

\* The session: ensureGuardAttached and dispose are called in any order and
\* for any view, between the events of a running session.
NextSession ==
    \/ \E v \in OwnViews : ApiEnsureGuardAttached(v)
    \/ ApiDispose
    \/ \E v \in OwnViews : ActiveLeafChange(v)
    \/ Unload
    \/ \E v \in OwnViews, n \in NodeIds : HostTouch(v, n)
    \/ \E target \in Targets : PointerDown(1, target)
    \/ PointerUp(1)
    \/ Frame
    \/ Deliver
    \/ ClearRestoring

SpecSession == Init /\ [][NextSession]_vars

\* The session with a host that moves the locked node of v1, within and
\* beyond the tolerance
NextDispose ==
    \/ NextSession
    \/ \E k \in {0, MaxCoord} : HostMove("v1", "b", k)

SpecDispose == Init /\ [][NextDispose]_vars

\* The scheduling of the loop: pointers and arrow keys ask for the loop
\* while the guard is attached, moved to another canvas and disposed of,
\* frames run and time passes.
NextSchedule ==
    \/ \E v \in OwnViews : ApiEnsureGuardAttached(v)
    \/ ApiDispose
    \/ \E v \in OwnViews : ActiveLeafChange(v)
    \/ \E pid \in Pointers, target \in Targets : PointerDown(pid, target)
    \/ \E pid \in Pointers : PointerUp(pid)
    \/ ArrowKey
    \/ Advance(LoopStep, LoopElapsed)
    \/ Frame

SpecSchedule == Init /\ [][NextSchedule]_vars

\* The locked set alone: setLocked is called with any canvas, id and value,
\* from every duplicate-free pair of lists the plugin can have saved.
LockLists ==
    {seq \in UNION {[1..k -> NodeIds] : k \in 0..Cardinality(NodeIds)} :
        \A i, j \in 1..Len(seq) : i # j => seq[i] # seq[j]}

InitLocks == \E locks \in [Canvases -> LockLists] : Install(Boot(locks))

\* setLocked(c, id, locked) called on the manager
ApiSetLocked(c, id, locked) ==
    /\ NewTask
    /\ Commit([SetLocked(Start, c, id, locked) EXCEPT
                  !.last = [Quiet EXCEPT !.kind = "setLocked", !.ids = {id},
                               !.wasLocked = {x \in {id} : IsLocked(Cur, c, x)}]])

NextLocks == \E c \in Canvases, id \in NodeIds, locked \in BOOLEAN : ApiSetLocked(c, id, locked)

SpecLocks == InitLocks /\ [][NextLocks]_vars

\* restoreModelSnapshot alone: node a of v1 is any node object built from
\* the candidate bases below (o itself is always an object), the snapshot is
\* any snapshot whose values differ from every value of the node, and
\* restoreModelSnapshot is called once.
ShapeBases ==
    {[x |-> x, y |-> y, width |-> sz[1], height |-> sz[1], w |-> sz[2], h |-> sz[2]] :
        x \in {None, Some(1)}, y \in {None, Some(1)},
        sz \in {<<None, None>>, <<Some(1), None>>, <<None, Some(1)>>}}

ShapeObjs ==
    [top : {Some(b) : b \in ShapeBases},
     pos : {None} \cup {Some(b) : b \in ShapeBases},
     rect : {None} \cup {Some(b) : b \in ShapeBases},
     data : {None, Some([EmptyBase EXCEPT !.x = Some(1), !.y = Some(1)])}]

ShapeSnapshots ==
    [mode : Range(Modes), x : {0}, y : {0}, w : {None, Some(0)}, h : {None, Some(0)}]

InitRestore ==
    \E o \in ShapeObjs, snap \in ShapeSnapshots :
        Install([Boot([c \in Canvases |-> IF c = "c1" THEN <<"a">> ELSE <<>>]) EXCEPT
                    !.hostNodes["v1"]["a"] = Some(o),
                    !.lockedModelByCanvas["c1"]["a"] = Some(snap)])

\* restoreModelSnapshot(v1, a, snap) called with the stored snapshot
ApiRestoreModelSnapshot ==
    /\ NewTask
    /\ last.kind = "none"
    /\ Commit(RestoreNode([Start EXCEPT !.last.kind = "restore"], "v1", "a",
                          Get(lockedModelByCanvas["c1"]["a"])))

NextRestore == ApiRestoreModelSnapshot

SpecRestore == InitRestore /\ [][NextRestore]_vars

\* The divergence check: node a of v1 is locked and the loop runs; its live
\* geometry and its snapshot are any pair of the records below, whose
\* coordinates and sizes are equal, one tolerance apart or further apart,
\* and whose sizes are present or not; both detectors then compare them.
LiveBases ==
    {[EmptyBase EXCEPT !.x = Some(x), !.y = Some(y), !.width = w, !.height = h] :
        x \in 0..MaxCoord, y \in 0..MaxCoord,
        w \in {None, Some(0), Some(MaxCoord)}, h \in {None, Some(0), Some(MaxCoord)}}

SavedSnapshots ==
    [mode : {"top"}, x : {0, Eps}, y : {0, Eps},
     w : {None, Some(0), Some(Eps)}, h : {None, Some(0), Some(Eps)}]

InitCompare ==
    \E b \in LiveBases, snap \in SavedSnapshots :
        Install([DetectStart("v1", <<"a">>) EXCEPT
                    !.hostNodes["v1"]["a"] = Some([EmptyObj EXCEPT !.top = Some(b)]),
                    !.lockedModelByCanvas["c1"]["a"] = Some(snap)])

NextCompare ==
    \/ HostTouch("v1", "a")
    \/ Frame
    \/ Deliver
    \/ ClearRestoring

SpecCompare == InitCompare /\ [][NextCompare]_vars

\* The redraw trigger: the detectors at work on a canvas object that has
\* any of the redraw methods, each returning or throwing, while the host
\* moves the nodes or takes the geometry of node a away
InitRedraw ==
    \E methods \in [{MaybeMethods[i] : i \in 1..Len(MaybeMethods)} -> MethodKinds] :
        Install([DetectStart("v1", <<"a", "b">>) EXCEPT !.canvasMethods["v1"] = methods])

NextRedraw ==
    \/ \E n \in NodeIds, k \in {0, MaxCoord} : HostMove("v1", n, k)
    \/ HostDropGeometry("v1", "a")
    \/ \E n \in NodeIds : HostTouch("v1", n)
    \/ Frame
    \/ Deliver
    \/ ClearRestoring

SpecRedraw == InitRedraw /\ [][NextRedraw]_vars

\* Absent nodes: a and b are locked in v1 and the loop runs; the host moves
\* the nodes, removes and renders their elements, and takes the geometry or
\* the node object of a away.
NextAbsent ==
    \/ \E n \in NodeIds, k \in {0, MaxCoord} : HostMove("v1", n, k)
    \/ \E n \in NodeIds : HostRemoveEl("v1", n)
    \/ \E n \in NodeIds : HostAddEl("v1", n)
    \/ HostDropGeometry("v1", "a")
    \/ HostDropNode("v1", "a")
    \/ Frame

SpecAbsent == InitDetect /\ [][NextAbsent]_vars

\* Unlocking under the detectors: the nodes of the observed view are locked
\* and the loop runs; the host moves them (v1) or restyles them (v2), the
\* commands unlock them and lock a again, also with mutation records still
\* queued, and frames and observer batches run.
NextUnlock ==
    \/ \E v \in OwnViews, n \in NodeIds, k \in {0, MaxCoord} :
          observedView = Some(v) /\ HostMove(v, n, k)
    \/ \E val \in HostTransforms :
          observedView = Some("v2") /\ HostSetStyle("v2", "a", val)
    \/ \E v \in OwnViews, n \in NodeIds : HostTouch(v, n)
    \/ Toggle(<<"a">>)
    \/ \E sel \in CommandSelections : Unlock(sel)
    \/ UnlockAll
    \/ Frame
    \/ Deliver
    \/ ClearRestoring

SpecUnlock == InitBypass /\ [][NextUnlock]_vars

\* The snapshot store under everything but the commands: a and b are locked
\* in v1; the host moves and restyles a, the pointer and the keys act, the
\* option is switched, frames and observer batches run, and a is locked
\* again and unlocked by the commands.
NextFrozen ==
    \/ \E k \in {0, MaxCoord} : HostMove("v1", "a", k)
    \/ \E val \in HostTransforms : HostSetStyle("v1", "a", val)
    \/ HostTouch("v1", "a")
    \/ \E b \in BOOLEAN : SetSettings(b)
    \/ \E down \in BOOLEAN : AltKey(down)
    \/ \E target \in {"a", "background"} : PointerDown(1, target)
    \/ PointerMove(1)
    \/ PointerUp(1)
    \/ ArrowKey
    \/ Lock(<<"a">>)
    \/ Unlock(<<"a">>)
    \/ Frame
    \/ Deliver
    \/ ClearRestoring

SpecFrozen == InitDetect /\ [][NextFrozen]_vars

\* The style-only restore: node a of v2 has no readable geometry and is
\* guarded by its inline styles.  Its element starts with any of the styles
\* below and its wrapper with or without a position; a is locked by the
\* command (all snapshots) or was locked when the plugin loaded (primed
\* element-style snapshot only); the host then sets the styles anew.  In the
\* other start the nodes of v1, which have geometry snapshots, are locked.
StyleProps == <<"left", "transform", "opacity">>

StyleValues == {"p", "q"}

RECURSIVE StylesFrom(_)
StylesFrom(i) ==
    IF i > Len(StyleProps) THEN {<<>>}
    ELSE LET rest == StylesFrom(i + 1) IN
         rest \cup {<<<<StyleProps[i], val>>>> \o st : val \in StyleValues, st \in rest}

Styles == StylesFrom(1)

WrapStyles == {<<>>, <<<<"left", "p">>, <<"opacity", "p">>>>}

StyleStart(st, wrap, byCommand) ==
    LET s0 == [Boot([c \in Canvases |-> IF c = "c2" /\ ~byCommand THEN <<"a">> ELSE <<>>])
                  EXCEPT !.active = Some("v2"),
                         !.dom["v2"]["a"].style = st,
                         !.dom["v2"]["a"].wrapStyle = wrap]
        s1 == OnActiveLeafChange(s0, "v2")
        s2 == IF byCommand THEN LockCommand(s1, "v2", <<"a">>) ELSE s1
    IN OnPointerDown([s2 EXCEPT !.ptrs = {1}], "v2", 1, "background")

InitStyles ==
    \/ \E st \in Styles, wrap \in WrapStyles, byCommand \in BOOLEAN :
          Install(StyleStart(st, wrap, byCommand))
    \/ Install(DetectStart("v1", <<"a", "b">>))

NextStyles ==
    \/ \E v \in OwnViews, st \in Styles :
          observedView = Some(v) /\ HostRestyle(v, "a", "node", st)
    \/ \E v \in OwnViews, wrap \in WrapStyles :
          observedView = Some(v) /\ HostRestyle(v, "a", "wrap", wrap)
    \/ Frame
    \/ Deliver
    \/ ClearRestoring

SpecStyles == InitStyles /\ [][NextStyles]_vars

\* The split workspace: the canvas file c1 is open in the two panes v1 and
\* v3, and the session is moved between them.
SplitViews == {"v1", "v3"}

NextSplit ==
    \/ \E v \in SplitViews : ApiEnsureGuardAttached(v)
    \/ \E v \in SplitViews : ActiveLeafChange(v)
    \/ ApiDispose
    \/ \E v \in SplitViews, n \in NodeIds : HostTouch(v, n)
    \/ \E target \in Targets : PointerDown(1, target)
    \/ PointerUp(1)
    \/ Frame
    \/ Deliver
    \/ ClearRestoring

SpecSplit == Init /\ [][NextSplit]_vars

\* The commands in the split workspace: the panes v1 and v3 of the canvas
\* file c1 are activated in turn and the commands act on the active one,
\* while the host removes and re-renders an element
NextPanes ==
    \/ \E v \in SplitViews : ActiveLeafChange(v)
    \/ \E v \in SplitViews : HostRemoveEl(v, "a")
    \/ \E v \in SplitViews : HostAddEl(v, "a")
    \/ \E sel \in CommandSelections : Toggle(sel)
    \/ \E sel \in CommandSelections : Lock(sel)
    \/ \E sel \in CommandSelections : Unlock(sel)
    \/ UnlockAll

SpecPanes == InitCommands /\ [][NextPanes]_vars

-----------------------------------------------------------------------------
(* Properties of the detectors *)

Detectors == {"tick", "observer"}

\* The bypass rule, read off the fields
BypassActive == settings.disableLockWhileAltDown /\ altDown

\* The ids locked in the observed canvas that have a geometry snapshot
Guarded ==
    IF observedCanvasPath = None THEN {}
    ELSE {n \in Range(lockedByCanvas[Get(observedCanvasPath)]) :
             IsSome(lockedModelByCanvas[Get(observedCanvasPath)][n])}

\* The live geometry of node n of the observed view equals its snapshot
\* within the tolerance
AtSnapshot(n) ==
    LET live == ReadModelSnapshot(hostNodes[Get(observedView)][n])
        saved == lockedModelByCanvas[Get(observedCanvasPath)][n]
    IN IsSome(live) /\ IsSome(saved) /\ IsSameSnapshot(Get(live), Get(saved))

\* The last step was a detector pass for node n as the specification counts
\* it: any tick, or an observer batch with a record for the node
PassFor(n) ==
    \/ last.kind = "tick"
    \/ last.kind = "observer" /\ <<Get(observedView), n>> \in last.targets

\* The last step was a detector pass that reaches node n: a tick with the
\* node's element in the view, or an observer batch with a record for the
\* node's element, which carries lc-locked and is known to the resolver,
\* and whose restore the throttle did not suppress
EffectivePassFor(n) ==
    LET el == <<Get(observedView), n>> IN
    \/ last.kind = "tick" /\ dom[el[1]][n].present
    \/ /\ last.kind = "observer"
       /\ el \in last.targets
       /\ dom[el[1]][n].present /\ dom[el[1]][n].cls
       /\ el \in nodeIdByEl
       /\ el \notin last.throttled

\* C1 as stated: after a detector pass with the bypass not active (a tick,
\* or an observer batch with a mutation for the node), every locked node of
\* the observed canvas with a geometry snapshot is at its snapshot.
C1_Original ==
    (last.kind \in Detectors /\ ~BypassActive /\ IsSome(observedView)) =>
        \A n \in Guarded : PassFor(n) => AtSnapshot(n)

\* C1 amended: after a detector pass with the bypass not active, every
\* locked node of the observed canvas with a geometry snapshot that the pass
\* reaches (a tick with the node's element present; an observer batch with
\* a record for the node's known lc-locked element, not suppressed by the
\* 50 ms throttle) is at its snapshot within the tolerance.
C1_RestoredUnlessThrottled ==
    (last.kind \in Detectors /\ ~BypassActive /\ IsSome(observedView)) =>
        \A n \in Guarded : EffectivePassFor(n) => AtSnapshot(n)

\* An observer batch that restored one node and was throttled for another
C1_Witness ==
    /\ last.kind = "observer" /\ ~BypassActive
    /\ \E n, m \in Guarded :
          /\ <<"v1", n>> \in last.wrote /\ AtSnapshot(n)
          /\ <<"v1", m>> \in last.throttled /\ ~AtSnapshot(m)

\* The ids locked in the observed canvas that have no geometry snapshot but
\* a snapshot of an inline style
StyleGuarded ==
    IF observedCanvasPath = None THEN {}
    ELSE {n \in Range(lockedByCanvas[Get(observedCanvasPath)]) :
             /\ lockedModelByCanvas[Get(observedCanvasPath)][n] = None
             /\ \/ IsSome(lockedStyleByCanvas[Get(observedCanvasPath)][n])
                \/ IsSome(lockedMoveStyleByCanvas[Get(observedCanvasPath)][n])}

SamePosition(style, saved) ==
    \A i \in 1..Len(PositionProps) :
        GetPropertyValue(style, PositionProps[i]) = GetPropertyValue(saved, PositionProps[i])

\* The position properties of node n's guarded element are those of its
\* style snapshot
AtStyleSnapshot(n) ==
    LET v == Get(observedView)
        c == Get(observedCanvasPath)
        saved == lockedStyleByCanvas[c][n]
        savedMove == lockedMoveStyleByCanvas[c][n]
    IN IF IsSome(savedMove)
       THEN SamePosition(IF moveElByNodeEl[<<v, n>>] = Some("wrap")
                         THEN dom[v][n].wrapStyle ELSE dom[v][n].style, Get(savedMove))
       ELSE IsSome(saved) => SamePosition(dom[v][n].style, Get(saved))

\* C2: while the option disableLockWhileAltDown is enabled and the modifier
\* is down, no observer batch and no tick writes a geometry field or an
\* inline style; in every other state (so with the modifier down and the
\* option disabled) a tick restores every locked node whose element is in
\* the view, to its geometry snapshot or else to its style snapshot.
C2_SuspendedExactlyOnBypass ==
    [][/\ (last'.kind \in Detectors /\ BypassActive) =>
              (hostNodes' = hostNodes /\ dom' = dom)
       /\ (last'.kind = "tick" /\ ~BypassActive /\ IsSome(observedView)) =>
              /\ \A n \in Guarded :
                     dom[Get(observedView)][n].present => AtSnapshot(n)'
              /\ \A n \in StyleGuarded :
                     dom[Get(observedView)][n].present => AtStyleSnapshot(n)'
      ]_vars

\* A tick that ran under the bypass and left a moved node where the host
\* put it
C2_Witness ==
    /\ last.kind = "tick" /\ BypassActive /\ IsSome(observedView)
    /\ \E n \in Guarded : ~AtSnapshot(n)

\* The node of a fresh element is guarded by a geometry snapshot in the
\* observed view
FreshGuarded(el) == observedView = Some(el[1]) /\ el[2] \in Guarded

\* C3 as stated: once the modifier is released, a new geometry mutation of
\* a locked node with a geometry snapshot is reverted by the next detector
\* pass: the next tick, or the next observer batch with a record for it.
C3_Original ==
    [][last'.kind \in Detectors =>
          \A el \in hist.fresh :
              (FreshGuarded(el) /\ (last'.kind = "tick" \/ el \in last'.targets))
                  => AtSnapshot(el[2])'
      ]_vars

\* C3 amended: once the modifier is released, a new geometry mutation of a
\* locked node with a geometry snapshot and an element in the view is
\* reverted by the next tick, and by the next observer batch with a record
\* for its known lc-locked element unless the 50 ms throttle suppresses
\* that restore.
C3_RevertedAfterRelease ==
    [][last'.kind \in Detectors =>
          \A el \in hist.fresh :
              (FreshGuarded(el) /\ EffectivePassFor(el[2])') => AtSnapshot(el[2])'
      ]_vars

\* An observer batch that reverted a mutation made after the release
C3_Witness ==
    /\ last.kind = "observer"
    /\ hist.released /\ ~altDown
    /\ \E el \in hist.caught : AtSnapshot(el[2])

-----------------------------------------------------------------------------
(* Properties of the commands *)

CommandKinds == {"toggle", "lock", "unlock", "unlockAll"}

\* The step recorded in l unlocked the ids l.ids
Unlocks(l) ==
    \/ l.kind \in {"unlock", "unlockAll"}
    \/ l.kind = "toggle" /\ l.wasLocked = l.ids

ActivePath == PathOf(Get(active))

NoSnapshotOf(c, n) ==
    /\ lockedStyleByCanvas[c][n] = None
    /\ lockedMoveStyleByCanvas[c][n] = None
    /\ lockedModelByCanvas[c][n] = None

C5_LockThenUnlock ==
    [][/\ last'.kind \in CommandKinds => hostNodes' = hostNodes
       /\ (Unlocks(last') /\ IsSome(active)) =>
              \A n \in last'.justLocked \cap last'.ids :
                  /\ n \notin Range(lockedByCanvas'[ActivePath])
                  /\ NoSnapshotOf(ActivePath, n)'
      ]_vars

\* An unlock right after the lock that took the node's snapshots
C5_Witness ==
    /\ last.kind = "unlock" /\ IsSome(active)
    /\ \E n \in last.justLocked \cap last.ids :
          /\ dom[Get(active)][n].present
          /\ IsSome(hist.forgotten[ActivePath][n])
          /\ NoSnapshotOf(ActivePath, n)

\* The fields of the program, without the record of the last step
Fields == [Cur EXCEPT !.last = Quiet]

\* C6: unlock-all returns the number of ids locked in the canvas, empties
\* the canvas's locked list, deletes the three snapshots of each of those
\* ids and leaves the other canvases' lists and snapshots as they were; on
\* an empty list (a repeated call) it returns 0 and changes nothing.
C6_UnlockAll ==
    [][last'.kind = "unlockAll" =>
          /\ last'.count = Cardinality(Range(lockedByCanvas[ActivePath]))
          /\ lockedByCanvas'[ActivePath] = <<>>
          /\ \A n \in Range(lockedByCanvas[ActivePath]) : NoSnapshotOf(ActivePath, n)'
          /\ \A c \in Canvases \ {ActivePath} :
                 /\ lockedByCanvas'[c] = lockedByCanvas[c]
                 /\ lockedStyleByCanvas'[c] = lockedStyleByCanvas[c]
                 /\ lockedMoveStyleByCanvas'[c] = lockedMoveStyleByCanvas[c]
                 /\ lockedModelByCanvas'[c] = lockedModelByCanvas[c]
          /\ lockedByCanvas[ActivePath] = <<>> => (last'.count = 0 /\ Fields' = Fields)
      ]_vars

\* Unlock-all of two locked nodes with snapshots, the other canvas holding
\* a locked node with a snapshot
C6_Witness ==
    /\ last.kind = "unlockAll" /\ last.count = 2 /\ active = Some("v1")
    /\ \A n \in last.ids : IsSome(hist.forgotten["c1"][n])
    /\ lockedByCanvas["c2"] = <<"a">> /\ IsSome(lockedStyleByCanvas["c2"]["a"])

\* C7: the toggle locks every selected node when at least one of them is
\* unlocked and unlocks every selected node when all are locked; the nodes
\* outside the selection and the other canvases keep their lock state.
C7_Toggle ==
    [][last'.kind = "toggle" =>
          LET anyUnlocked == \E id \in last'.ids : id \notin Range(lockedByCanvas[ActivePath])
          IN /\ \A id \in last'.ids :
                    (id \in Range(lockedByCanvas'[ActivePath])) = anyUnlocked
             /\ \A id \in NodeIds \ last'.ids :
                    (id \in Range(lockedByCanvas'[ActivePath]))
                        = (id \in Range(lockedByCanvas[ActivePath]))
             /\ \A c \in Canvases \ {ActivePath} : lockedByCanvas'[c] = lockedByCanvas[c]
      ]_vars

\* A toggle of a selection with one locked and one unlocked node, which
\* locked both
C7_Witness ==
    /\ last.kind = "toggle" /\ IsSome(active)
    /\ last.wasLocked # {} /\ last.wasLocked # last.ids
    /\ last.ids \subseteq Range(lockedByCanvas[ActivePath])

-----------------------------------------------------------------------------
(* Properties of the throttle, the loop and the session *)

\* C8 as stated: any two restore writes to the same node are at least
\* 50 ms apart, whichever detector makes them.
C8_Original ==
    [][\A el \in last'.wrote :
          hist.writeAt[el] = 0 \/ now' - hist.writeAt[el] >= ThrottleMs
      ]_vars

\* The throttle at work: an observer batch whose restore of a diverged
\* node is suppressed less than 50 ms after the node's last restore
C8_Witness ==
    /\ last.kind = "observer"
    /\ \E el \in last.throttled :
          /\ el \notin last.wrote
          /\ now - hist.writeAt[el] < ThrottleMs
          /\ ~AtSnapshot(el[2])

\* The loop is stopped
LoopStopped ==
    /\ ~enforcing
    /\ enforcementRaf = None
    /\ rafPending = {}
    /\ enforceUntil = 0

\* C9 as stated: with no pointer down and no input for the longer tail
\* (400 ms), the frame callback that runs leaves the loop stopped:
\* enforcing false, no frame callback scheduled, enforceUntil 0.
C9_Original ==
    (/\ last.kind = "tick"
     /\ ptrs = {} /\ ~pointerIsDown
     /\ hist.inputAt > 0
     /\ now >= hist.inputAt + NudgeTailMs) => LoopStopped

\* The loop stopping 400 ms after an arrow key
C9_Witness ==
    /\ last.kind = "tick"
    /\ now >= hist.inputAt + NudgeTailMs /\ hist.inputAt > 0
    /\ LoopStopped

RECURSIVE SumOver(_, _)
SumOver(f, S) ==
    IF S = {} THEN 0
    ELSE LET x == CHOOSE x \in S : TRUE IN f[x] + SumOver(f, S \ {x})

\* C10: at most one mutation observer is connected and at most one
\* input-guard listener group is un-aborted.
C10_OneSession ==
    /\ SumOver(connectedObs, Views) <= 1
    /\ SumOver(liveListeners, Views) <= 1

\* The session moved from view v1 (where the locked class was applied) to
\* view v2
C10_Witness ==
    /\ observer = Some("v2") /\ inputAbort = Some("v2")
    /\ connectedObs["v2"] = 1 /\ connectedObs["v1"] = 0
    /\ liveListeners["v2"] = 1 /\ liveListeners["v1"] = 0
    /\ dom["v1"]["b"].cls

-----------------------------------------------------------------------------
(* Properties of the session *)

\* The session is scoped to view v: its observer and its listeners are on
\* the container of v and an enforcement pass reads v and its canvas path
SessionOn(v) ==
    /\ observer = Some(v) /\ connectedObs[v] = 1
    /\ inputAbort = Some(v) /\ liveListeners[v] = 1
    /\ observedView = Some(v)
    /\ observedCanvasPath = Some(PathOf(v))

\* C11: after ensureGuardAttached(ctx) returns (called directly or by the
\* active-leaf-change handler), whatever view and path were observed
\* before, the observer and the input listeners are on ctx.view's container
\* and enforcement passes use ctx.view and ctx.canvasPath.
C11_Original ==
    [][\A v \in Views :
        (ApiEnsureGuardAttached(v) \/ ActiveLeafChange(v)) => SessionOn(v)']_vars

\* The pane v3 was activated while the session was on the pane v1 of the
\* same canvas file: the session stayed on v1
C11_Witness ==
    /\ active = Some("v3")
    /\ observer = Some("v1") /\ inputAbort = Some("v1")
    /\ observedView = Some("v1")
    /\ connectedObs["v3"] = 0 /\ liveListeners["v3"] = 0

\* Nothing of a session is left: no connected observer and no record for
\* one, no live listener group, no frame callback scheduled
Idle ==
    /\ observer = None /\ records = <<>>
    /\ inputAbort = None
    /\ \A v \in Views : connectedObs[v] = 0 /\ liveListeners[v] = 0
    /\ enforcementRaf = None /\ rafPending = {}
    /\ ~enforcing

\* A step that calls ensureGuardAttached
Attaches == \E v \in Views : ApiEnsureGuardAttached(v) \/ ActiveLeafChange(v)

\* C12: dispose() (called directly or by onunload) disconnects the
\* observer, aborts the listeners and cancels the pending tick; from then on,
\* as long as ensureGuardAttached is not called again, no observer callback,
\* no input-guard handler and no tick runs, and no restore write (of a node
\* object or of an inline style) is performed.
C12_SilentAfterDispose ==
    [][/\ (ApiDispose \/ Unload) => Idle'
       /\ (Idle /\ ~Attaches) =>
              /\ Idle'
              /\ last'.kind \notin Detectors \cup InputKinds
              /\ last'.wrote = {} /\ last'.styled = {}]_vars

\* After a restore write of node b of v1 the manager was disposed of, the
\* host moved the node away from its snapshot and nothing brought it back
C12_Witness ==
    /\ Idle
    /\ hist.writeAt[<<"v1", "b">>] > 0
    /\ observedView = Some("v1") /\ observedCanvasPath = Some("c1")
    /\ IsLocked(Cur, "c1", "b")
    /\ IsSome(lockedModelByCanvas["c1"]["b"])
    /\ ~AtSnapshot("b")

-----------------------------------------------------------------------------
(* Properties of the input guard *)

\* The element of node n in the guarded view carries lc-locked, and n is in
\* the locked set of the view's canvas
OnLockedNode(n) ==
    LET v == Get(inputAbort) IN
    /\ dom[v][n].present /\ dom[v][n].cls
    /\ IsLocked(Cur, PathOf(v), n)

\* C13: a pointermove is suppressed iff the bypass is not active and the
\* remembered blocked pointer id is the event's; the blocked id is set only
\* by a pointerdown whose target is inside a locked node, to that event's
\* pointer id; a pointerdown is never suppressed.
C13_MoveSuppression ==
    [][/\ \A pid \in Pointers :
            PointerMove(pid) =>
                (last'.suppressed <=> (~BypassActive /\ blockedPointerId = Some(pid)))
       /\ (IsSome(blockedPointerId') /\ blockedPointerId' # blockedPointerId) =>
            \E pid \in Pointers, target \in NodeIds :
                /\ PointerDown(pid, target)
                /\ IsSome(inputAbort) /\ OnLockedNode(target)
                /\ blockedPointerId' = Some(pid)
       /\ last'.kind = "pointerdown" => ~last'.suppressed]_vars

\* Pointer 1 went down on the locked node and its move was suppressed while
\* pointer 2 is down as well
C13_Witness ==
    /\ last.kind = "pointermove" /\ last.suppressed
    /\ blockedPointerId = Some(1)
    /\ ptrs = {1, 2}
    /\ ~BypassActive

-----------------------------------------------------------------------------
(* Properties of the locked set *)

\* No id occurs twice in the list
NoDuplicates(seq) == \A i, j \in 1..Len(seq) : i # j => seq[i] # seq[j]

\* C14: setLocked(c, id, true) on a locked id and setLocked(c, id, false) on
\* an unlocked id leave the lists unchanged; after any setLocked(c, id, b),
\* isLocked(c, id) = b and isLocked of every other (canvas, id) is what it
\* was, so isLocked equals the value of the last setLocked for the pair; no
\* id occurs twice in a list.
C14_SetLocked ==
    [][\A c \in Canvases, id \in NodeIds, b \in BOOLEAN :
        ApiSetLocked(c, id, b) =>
            /\ (IsLocked(Cur, c, id) = b) => lockedByCanvas' = lockedByCanvas
            /\ IsLocked(Cur, c, id)' = b
            /\ \A c2 \in Canvases, id2 \in NodeIds :
                   <<c2, id2>> # <<c, id>> => IsLocked(Cur, c2, id2)' = IsLocked(Cur, c2, id2)
            /\ \A c2 \in Canvases : NoDuplicates(lockedByCanvas'[c2])]_vars

\* setLocked(c1, b, true) was called when b was already locked, in a list
\* of two ids
C14_Witness ==
    /\ last.kind = "setLocked" /\ last.ids = {"b"} /\ last.wasLocked = {"b"}
    /\ lockedByCanvas["c1"] = <<"b", "a">>

-----------------------------------------------------------------------------
(* Properties of the locked marker *)

\* In view v an element carries lc-locked iff it is the element of an id
\* in the locked set of the view's canvas
ClassesAgree(v) ==
    \A n \in NodeIds :
        dom[v][n].cls <=> (dom[v][n].present /\ IsLocked(Cur, PathOf(v), n))

\* The step is a command or a canvas activation
CommandOrActivation ==
    \/ last'.kind \in CommandKinds
    \/ \E v \in Views : ActiveLeafChange(v)

-----------------------------------------------------------------------------
(* Properties of the snapshot store *)

\* C16: every (canvas, node) that has an element-style, move-style or
\* geometry snapshot is in the locked set of that canvas: snapshots are made
\* for locked nodes only and none survives an unlock.
C16_SnapshotsOnlyOfLocked ==
    \A c \in Canvases, n \in NodeIds : ~NoSnapshotOf(c, n) => IsLocked(Cur, c, n)

\* Node b of c1, loaded as locked and primed by the activation, was
\* unlocked by the command and has no snapshot, while node a, locked by a
\* command, has all three
C16_Witness ==
    /\ last.kind = "unlock" /\ last.ids = {"b"} /\ last.wasLocked = {"b"}
    /\ active = Some("v1")
    /\ NoSnapshotOf("c1", "b")
    /\ IsLocked(Cur, "c1", "a")
    /\ IsSome(lockedStyleByCanvas["c1"]["a"])
    /\ IsSome(lockedMoveStyleByCanvas["c1"]["a"])
    /\ IsSome(lockedModelByCanvas["c1"]["a"])

\* The ids the step recorded in l called snapshotOnLock for: the selection
\* of a lock command or of a locking toggle
Snapshotted(l) ==
    IF l.kind = "lock" \/ (l.kind = "toggle" /\ l.wasLocked # l.ids) THEN l.ids ELSE {}

\* The three snapshots of node id of the canvas of view v are the node's
\* current values: its geometry, and the inline styles of its element and
\* of its move element when it has an element
SnapshotsCurrent(v, id) ==
    LET c == PathOf(v)
        d == dom[v][id]
    IN /\ lockedModelByCanvas[c][id] = ReadModelSnapshot(hostNodes[v][id])
       /\ d.present =>
            /\ lockedStyleByCanvas[c][id] = Some(d.style)
            /\ lockedMoveStyleByCanvas[c][id] =
                   Some(IF FindMoveElement(d) = "wrap" THEN d.wrapStyle ELSE d.style)

\* A second snapshotOnLock changes none of the snapshot maps
SnapshotAgainSame(v, id) ==
    LET s == SnapshotOnLock(Cur, v, id) IN
    /\ s.lockedStyleByCanvas = lockedStyleByCanvas
    /\ s.lockedMoveStyleByCanvas = lockedMoveStyleByCanvas
    /\ s.lockedModelByCanvas = lockedModelByCanvas

\* C17: after snapshotOnLock(ctx, id) returns (called by the lock command
\* and by a locking toggle for each selected id), the element-style,
\* move-style and geometry snapshots of id equal the node's values at the
\* time of the call, whatever snapshot there was before, and calling it
\* again changes nothing.
C17_Original ==
    [][\A id \in Snapshotted(last'), v \in Views :
          active' = Some(v) =>
              /\ SnapshotsCurrent(v, id)'
              /\ SnapshotAgainSame(v, id)']_vars

\* Node a of v1, already locked with a snapshot, was moved by the host and
\* locked again while its element was present: the snapshots were
\* overwritten with the current values
C17_Witness ==
    /\ last.kind = "lock" /\ "a" \in last.wasLocked
    /\ active = Some("v1") /\ dom["v1"]["a"].present
    /\ hostNodes["v1"]["a"] # InitNodeObj("v1", "a")
    /\ SnapshotsCurrent("v1", "a")
    /\ hist.forgotten["c1"]["a"] = None

-----------------------------------------------------------------------------
(* Properties of the restoring mark *)

\* The elements the observer step recorded in l processed: compared,
\* restored from the geometry snapshot or restored from a style snapshot
Processed(l) == l.seen \cup l.wrote \cup l.styled

\* C18: the observer does not react to its own writes.  An observer
\* callback marks every element it processes and skips every element that
\* was marked when it started; the records left after a callback (the ones
\* its own style writes produced) are of marked elements; a mark is removed
\* only once no record is left undelivered; and a second record of an
\* element in a batch changes nothing, so a batch restores an element at
\* most once.
C18_NoReactionToOwnWrites ==
    [][/\ last'.kind = "observer" =>
            /\ Processed(last') \subseteq restoring'
            /\ Processed(last') \cap restoring = {}
            /\ Range(records') \subseteq restoring'
            /\ IsSome(observer) =>
                   ObserverCallback([Cur EXCEPT !.records = Dedup(records)])
                       = ObserverCallback(Cur)
       /\ ~(restoring \subseteq restoring') => records = <<>> /\ records' = <<>>]_vars

\* The callback delivered the record of the observer's own style write of
\* node a of v2 while the element was marked, and skipped it
C18_Witness ==
    /\ last.kind = "observer" /\ ~last.bypass
    /\ last.targets = {<<"v2", "a">>}
    /\ <<"v2", "a">> \in restoring
    /\ Processed(last) = {}
    /\ records = <<>>

-----------------------------------------------------------------------------
(* Properties of the geometry restore *)

\* The node object of node n in the observed view
ObservedNode(n) == hostNodes[Get(observedView)][n]

Qualifies(base) == IsSome(base) /\ IsSome(Get(base).x) /\ IsSome(Get(base).y)

\* The base after applyTo accepted it: x and y from the snapshot, and the
\* size the snapshot has in width/height, else in w/h
Written(base, snap) ==
    LET b == Get(base)
        b1 == [b EXCEPT !.x = Some(snap.x), !.y = Some(snap.y)]
        b2 == IF snap.w = None THEN b1
              ELSE IF IsSome(b.width) THEN [b1 EXCEPT !.width = snap.w]
              ELSE IF IsSome(b.w) THEN [b1 EXCEPT !.w = snap.w]
              ELSE b1
    IN Some(IF snap.h = None THEN b2
            ELSE IF IsSome(b.height) THEN [b2 EXCEPT !.height = snap.h]
            ELSE IF IsSome(b.h) THEN [b2 EXCEPT !.h = snap.h]
            ELSE b2)

\* C20: restoreModelSnapshot writes x, y and the snapshot's size into the
\* shape the snapshot records whenever that shape has numeric x and y, and
\* into no other; another shape is written only when the recorded one is
\* absent or lacks numeric x or y; a restore modifies exactly one candidate
\* shape, and none when no candidate has numeric x and y.
C20_Original ==
    [][ApiRestoreModelSnapshot =>
          LET o == Get(hostNodes["v1"]["a"])
              o2 == Get(hostNodes'["v1"]["a"])
              snap == Get(lockedModelByCanvas["c1"]["a"])
              modified == {m \in Range(Modes) : o2[m] # o[m]}
          IN /\ Qualifies(o[snap.mode]) =>
                    /\ modified = {snap.mode}
                    /\ o2[snap.mode] = Written(o[snap.mode], snap)
             /\ (modified \ {snap.mode} # {}) => ~Qualifies(o[snap.mode])
             /\ (\E m \in Range(Modes) : Qualifies(o[m])) => Cardinality(modified) = 1
             /\ (\A m \in Range(Modes) : ~Qualifies(o[m])) => modified = {}]_vars

\* A restore of a snapshot read from o.rect wrote o.rect, which has numeric
\* x and y, and left o and o.pos as they were although they have them too
C20_Witness ==
    /\ last.kind = "restore" /\ last.wrote = {<<"v1", "a">>}
    /\ Get(lockedModelByCanvas["c1"]["a"]).mode = "rect"
    /\ LET o == Get(hostNodes["v1"]["a"]) IN
       /\ Qualifies(o.top) /\ Get(o.top).x = Some(1) /\ Get(o.top).y = Some(1)
       /\ Qualifies(o.pos) /\ Get(o.pos).x = Some(1) /\ Get(o.pos).y = Some(1)
       /\ Qualifies(o.rect) /\ Get(o.rect).x = Some(0) /\ Get(o.rect).y = Some(0)
       /\ Get(o.rect).width = Some(0) /\ Get(o.rect).height = Some(0)

-----------------------------------------------------------------------------
(* Properties of the redraw trigger *)

\* The redraw methods the canvas object of the observed view has
Available ==
    {i \in 1..Len(MaybeMethods) :
        canvasMethods[Get(observedView)][MaybeMethods[i]] # "absent"}

\* The position of method m in maybeMethods
IndexOf(m) == CHOOSE i \in 1..Len(MaybeMethods) : MaybeMethods[i] = m

\* The locked ids of the observed canvas with a geometry snapshot whose
\* node has an element and a readable geometry
Restorable ==
    {n \in Guarded :
        /\ dom[Get(observedView)][n].present
        /\ IsSome(ReadModelSnapshot(hostNodes[Get(observedView)][n]))}

\* C21: a detector pass requests a redraw only when restoreModelSnapshot
\* wrote a node; the first available method among requestRender,
\* requestFrame, render, redraw is invoked, and a later one only when every
\* available one before it threw; a throwing method does not undo the write
\* or stop the pass: after a tick every restorable node is at its snapshot.
C21_Original ==
    [][last'.kind \in Detectors =>
          /\ last'.redrawn # <<>> => last'.wrote # {}
          /\ (last'.wrote # {} /\ Available # {}) =>
                 \E k \in 1..Len(last'.redrawn) :
                     IndexOf(last'.redrawn[k]) = CHOOSE i \in Available :
                                                    \A j \in Available : i <= j
          /\ \A k \in 1..Len(last'.redrawn) :
                 \A j \in Available :
                     j < IndexOf(last'.redrawn[k]) =>
                         canvasMethods[Get(observedView)][MaybeMethods[j]] = "throws"
          /\ (last'.kind = "tick" /\ ~last'.bypass) =>
                 \A n \in Restorable : AtSnapshot(n)']_vars

\* requestRender threw in both restores of a tick, requestFrame was called
\* after it each time, and both nodes are back at their snapshots
C21_Witness ==
    /\ last.kind = "tick"
    /\ last.wrote = {<<"v1", "a">>, <<"v1", "b">>}
    /\ last.redrawn = <<"requestRender", "requestFrame", "requestRender", "requestFrame">>
    /\ canvasMethods["v1"]["requestRender"] = "throws"
    /\ AtSnapshot("a") /\ AtSnapshot("b")

-----------------------------------------------------------------------------
(* Properties of the input guard under the bypass *)

\* The step ran an input-guard handler while the bypass was active
BypassedInput == BypassActive /\ last'.kind \in InputKinds

\* The step left the enforcement loop as it was and suppressed nothing
LoopUntouched ==
    /\ enforceUntil' = enforceUntil
    /\ enforcing' = enforcing
    /\ enforcementRaf' = enforcementRaf
    /\ rafPending' = rafPending
    /\ ~last'.suppressed

\* C22 as stated: while the bypass is active a pointerdown, pointermove,
\* pointerup/cancel or arrow key leaves blockedPointerId, pointerIsDown,
\* enforceUntil and the enforcing/scheduled state unchanged, starts no loop
\* and suppresses no event.
C22_Original ==
    [][BypassedInput =>
          /\ LoopUntouched
          /\ blockedPointerId' = blockedPointerId
          /\ pointerIsDown' = pointerIsDown]_vars

\* C22 amended: while the bypass is active the handlers start no loop,
\* leave enforceUntil and the enforcing/scheduled state unchanged and
\* suppress no event; the pointer bookkeeping still runs: a pointerdown
\* sets pointerIsDown and blocks no pointer, a pointerup/cancel clears
\* pointerIsDown and blockedPointerId, the other handlers change neither.
C22_BypassKeepsBookkeeping ==
    [][BypassedInput =>
          /\ LoopUntouched
          /\ pointerIsDown' = IF last'.kind = "pointerdown" THEN TRUE
                               ELSE IF last'.kind = "pointerup" THEN FALSE
                               ELSE pointerIsDown
          /\ blockedPointerId' = IF last'.kind = "pointerup" THEN None
                                  ELSE blockedPointerId]_vars

\* A pointerdown on the locked node under the bypass: the pointer counts as
\* down, no pointer is blocked and no loop runs
C22_Witness ==
    /\ last.kind = "pointerdown" /\ BypassActive
    /\ pointerIsDown /\ blockedPointerId = None
    /\ ~enforcing /\ rafPending = {}

\* C23: with the bypass not active, from the pointerdown of a pointer
\* inside a locked node to the pointerup or pointercancel of that pointer,
\* every pointermove of the pointer is suppressed, whatever other pointers
\* do.  The pointerdown makes the pointer the blocked one; as long as it is
\* down it stays the blocked one; and a pointermove of the blocked pointer
\* is suppressed.
C23_Original ==
    [][\A pid \in Pointers :
          /\ \A target \in NodeIds :
                 (PointerDown(pid, target) /\ IsSome(inputAbort)
                    /\ OnLockedNode(target) /\ ~BypassActive) =>
                     blockedPointerId' = Some(pid)
          /\ (blockedPointerId = Some(pid) /\ pid \in ptrs /\ pid \in ptrs'
                 /\ ~BypassActive /\ ~BypassActive') =>
                 blockedPointerId' = Some(pid)
          /\ (PointerMove(pid) /\ blockedPointerId = Some(pid) /\ ~BypassActive) =>
                 last'.suppressed]_vars

\* With pointer 2 alone, down on the locked node, its move is suppressed
C23_Witness ==
    /\ last.kind = "pointermove" /\ last.suppressed
    /\ blockedPointerId = Some(2)
    /\ ptrs = {2} /\ pointerIsDown
    /\ ~BypassActive

-----------------------------------------------------------------------------
(* Properties of the deadline of the enforcement loop *)

\* The handlers that ask for the loop
RequestKinds == {"pointerdown", "pointerup", "arrow"}

\* The deadline a handler passes to startEnforcementLoop
Requested(kind) ==
    IF kind = "pointerdown" THEN Infinity
    ELSE IF kind = "pointerup" THEN now + ReleaseTailMs
    ELSE now + NudgeTailMs

\* The loop runs with a frame callback scheduled
Scheduled ==
    /\ enforcing
    /\ IsSome(enforcementRaf)
    /\ Get(enforcementRaf) \in rafPending

-----------------------------------------------------------------------------
(* Properties of the scheduling of the enforcement loop *)

\* C25: at most one enforcement tick is scheduled at any time: at most one
\* frame callback is pending, it is the one enforcementRaf names, and
\* enforcementRaf is non-null only while enforcing is true.
C25_OneTickScheduled ==
    /\ Cardinality(rafPending) <= 1
    /\ IsSome(enforcementRaf) => enforcing /\ rafPending = {Get(enforcementRaf)}
    /\ enforcementRaf = None => rafPending = {}

\* An arrow key while the loop started by a pointerdown runs: one callback
\* is pending
C25_Witness ==
    /\ last.kind = "arrow"
    /\ ptrs # {} /\ pointerIsDown
    /\ enforcing /\ Cardinality(rafPending) = 1
    /\ enforceUntil = Infinity

-----------------------------------------------------------------------------
(* Properties of a tick over absent nodes *)

\* The locked ids of the observed canvas
LockedObserved ==
    IF observedCanvasPath = None THEN {}
    ELSE Range(lockedByCanvas[Get(observedCanvasPath)])

\* The locked ids whose element does not resolve or whose geometry cannot be
\* read
Absent ==
    {n \in LockedObserved :
        \/ ~dom[Get(observedView)][n].present
        \/ ReadModelSnapshot(hostNodes[Get(observedView)][n]) = None}

\* C26: in a tick a locked id whose element does not resolve or whose
\* geometry cannot be read is skipped: neither its node object nor its
\* element changes; the tick writes only locked nodes that are present and
\* away from their snapshot, and every such node is at its snapshot
\* afterwards, wherever the absent id stands in the locked list.
C26_AbsentIsSkipped ==
    [][(last'.kind = "tick" /\ ~last'.bypass /\ IsSome(observedView)) =>
          LET v == Get(observedView) IN
          /\ \A n \in Absent :
                 /\ <<v, n>> \notin last'.wrote
                 /\ hostNodes'[v][n] = hostNodes[v][n]
                 /\ dom'[v][n] = dom[v][n]
          /\ last'.wrote \subseteq {<<v, n>> : n \in {m \in Restorable : ~AtSnapshot(m)}}
          /\ \A n \in Restorable : AtSnapshot(n)'
          /\ \A n \in NodeIds \ LockedObserved :
                 hostNodes'[v][n] = hostNodes[v][n] /\ dom'[v][n] = dom[v][n]]_vars

\* A tick with the element of a, the first locked id, gone and both nodes
\* moved: b is restored, a is left where the host put it
C26_Witness ==
    /\ last.kind = "tick"
    /\ lockedByCanvas["c1"] = <<"a", "b">>
    /\ ~dom["v1"]["a"].present
    /\ last.wrote = {<<"v1", "b">>}
    /\ AtSnapshot("b") /\ ~AtSnapshot("a")
    /\ IsSome(ReadModelSnapshot(hostNodes["v1"]["a"]))

-----------------------------------------------------------------------------
(* Properties of the detectors on unlocked nodes *)

\* Node n of view v is outside the locked set of the observed canvas
Unguarded(v, n) == observedView # Some(v) \/ n \notin LockedObserved

\* C27: a detector pass writes neither the geometry nor the inline styles of
\* a node outside the locked set of the observed canvas, and counts no such
\* node among its restores; so a node that a command unlocked is restored
\* neither by a later observer batch, with records queued before or after
\* the unlock, nor by a later tick.
C27_UnlockedIsLeftAlone ==
    [][last'.kind \in Detectors =>
          /\ \A v \in Views, n \in NodeIds :
                 Unguarded(v, n) =>
                     /\ hostNodes'[v][n] = hostNodes[v][n]
                     /\ dom'[v][n].style = dom[v][n].style
                     /\ dom'[v][n].wrapStyle = dom[v][n].wrapStyle
          /\ \A el \in last'.wrote \cup last'.styled : ~Unguarded(el[1], el[2])]_vars

\* An observer batch with a record for node a, unlocked and moved by the
\* host while b stays locked: nothing is written
C27_Witness ==
    /\ last.kind = "observer" /\ ~last.bypass
    /\ <<"v1", "a">> \in last.targets
    /\ LockedObserved = {"b"}
    /\ hist.forgotten["c1"]["a"] # None
    /\ ReadModelSnapshot(hostNodes["v1"]["a"]) # hist.forgotten["c1"]["a"]
    /\ last.wrote = {} /\ last.styled = {}

-----------------------------------------------------------------------------
(* Properties of priming *)

\* What primeLockedSnapshots(ctx) of view v, run on the state before the
\* step, has to leave in the three snapshot maps at canvas c and node n
PrimedStyle(v, c, n) ==
    IF c = PathOf(v) /\ IsLocked(Cur, c, n)
       /\ lockedStyleByCanvas[c][n] = None /\ dom[v][n].present
    THEN Some(dom[v][n].style)
    ELSE lockedStyleByCanvas[c][n]

PrimedModel(v, c, n) ==
    IF c = PathOf(v) /\ IsLocked(Cur, c, n) /\ lockedModelByCanvas[c][n] = None
    THEN ReadModelSnapshot(hostNodes[v][n])
    ELSE lockedModelByCanvas[c][n]

\* Priming the state again changes no snapshot map
PrimedAgainSame(v) ==
    LET s == PrimeLockedSnapshots(Cur, v) IN
    /\ s.lockedStyleByCanvas = lockedStyleByCanvas
    /\ s.lockedMoveStyleByCanvas = lockedMoveStyleByCanvas
    /\ s.lockedModelByCanvas = lockedModelByCanvas

\* C28: the priming of an activation captures an element-style or geometry
\* snapshot only for a locked id of the activated canvas for which that
\* kind is missing, and then the live value; every existing snapshot, every
\* snapshot slot of an id that is not locked, every move-style snapshot and
\* every other canvas stay as they were; priming again changes nothing.
C28_PrimingFillsMissingOnly ==
    [][\A v \in Views :
          ActiveLeafChange(v) =>
              /\ \A c \in Canvases, n \in NodeIds :
                     /\ lockedStyleByCanvas'[c][n] = PrimedStyle(v, c, n)
                     /\ lockedModelByCanvas'[c][n] = PrimedModel(v, c, n)
              /\ lockedMoveStyleByCanvas' = lockedMoveStyleByCanvas
              /\ PrimedAgainSame(v)']_vars

\* Node b, locked when the plugin loaded, has the element-style and geometry
\* snapshots of priming and no move-style snapshot; node a was locked by a
\* command and then moved by the host, so that its snapshot differs from its
\* live geometry
C28_Witness ==
    /\ active = Some("v1") /\ observedView = Some("v1")
    /\ last.kind = "none"
    /\ IsLocked(Cur, "c1", "a") /\ IsLocked(Cur, "c1", "b")
    /\ lockedStyleByCanvas["c1"]["b"] = Some(dom["v1"]["b"].style)
    /\ lockedModelByCanvas["c1"]["b"] = ReadModelSnapshot(hostNodes["v1"]["b"])
    /\ lockedMoveStyleByCanvas["c1"]["b"] = None
    /\ IsSome(lockedModelByCanvas["c1"]["a"])
    /\ IsSome(ReadModelSnapshot(hostNodes["v1"]["a"]))
    /\ lockedModelByCanvas["c1"]["a"] # ReadModelSnapshot(hostNodes["v1"]["a"])

-----------------------------------------------------------------------------
(* Properties of the snapshot store under the detectors and the input guard *)

SnapshotMaps == <<lockedStyleByCanvas, lockedMoveStyleByCanvas, lockedModelByCanvas>>

\* C29: the snapshots change only in a lock, unlock, toggle or unlock-all
\* command or in an activation (snapshotOnLock, forgetOnUnlock,
\* unlockAllInCanvas, primeLockedSnapshots): observer batches, ticks and
\* their restores, pointer and key events, setSettings and host mutations,
\* under the bypass or not, leave the three snapshot maps as they were.
C29_SnapshotsFrozen ==
    [][~CommandOrActivation => SnapshotMaps' = SnapshotMaps]_vars

\* An observer batch delivered under the bypass for node a, which the host
\* moved away from its snapshot: the snapshot is still the geometry a had
\* when it was locked
C29_Witness ==
    /\ last.kind = "observer" /\ last.bypass
    /\ <<"v1", "a">> \in last.targets
    /\ lockedModelByCanvas["c1"]["a"] = ReadModelSnapshot(InitNodeObj("v1", "a"))
    /\ IsSome(ReadModelSnapshot(hostNodes["v1"]["a"]))
    /\ ~AtSnapshot("a")

-----------------------------------------------------------------------------
(* Properties of the style-only restore *)

\* The inline style of an element of node n of view v: the node element or
\* its wrapper
StyleOf(v, n, which) == IF which = "wrap" THEN dom[v][n].wrapStyle ELSE dom[v][n].style

\* Style new is style old with the position properties taken from saved
PositionFrom(new, old, saved) ==
    /\ \A p \in Range(PositionProps) :
           GetPropertyValue(new, p) = GetPropertyValue(saved, p)
    /\ \A p \in Range(StyleProps) \ Range(PositionProps) :
           GetPropertyValue(new, p) = GetPropertyValue(old, p)
    /\ \A i \in 1..Len(new) : new[i][1] \in Range(PositionProps) \cup Range(StyleProps)

\* C30: a detector pass restores by style only a locked node of the observed
\* canvas that has no geometry snapshot; the restored element (the node
\* element or its wrapper) then has left, top, width, height and transform
\* as in the saved style it was restored from, absent where the saved style
\* has none, and every other property as before; the other element and the
\* elements of every other node keep their style.
C30_StyleOnlyRestore ==
    [][(last'.kind \in Detectors /\ IsSome(observedCanvasPath)) =>
          LET c == Get(observedCanvasPath) IN
          /\ \A el \in last'.styled :
                 /\ el[2] \in LockedObserved
                 /\ lockedModelByCanvas[c][el[2]] = None
                 /\ \E which \in {"node", "wrap"} :
                       \E saved \in {lockedStyleByCanvas[c][el[2]],
                                     lockedMoveStyleByCanvas[c][el[2]]} \ {None} :
                           /\ PositionFrom(StyleOf(el[1], el[2], which)',
                                           StyleOf(el[1], el[2], which), Get(saved))
                           /\ \A other \in {"node", "wrap"} \ {which} :
                                  StyleOf(el[1], el[2], other)' = StyleOf(el[1], el[2], other)
          /\ \A v \in Views, n \in NodeIds :
                 <<v, n>> \notin last'.styled =>
                     /\ dom'[v][n].style = dom[v][n].style
                     /\ dom'[v][n].wrapStyle = dom[v][n].wrapStyle]_vars

\* A tick restored the element of a, whose saved style sets left and has no
\* transform, after the host gave it another left, a transform and another
\* opacity: left is back, the transform is gone, the opacity is the host's
C30_Witness ==
    /\ last.kind = "tick" /\ last.styled = {<<"v2", "a">>}
    /\ lockedModelByCanvas["c2"]["a"] = None
    /\ lockedMoveStyleByCanvas["c2"]["a"] = None
    /\ lockedStyleByCanvas["c2"]["a"] = Some(<<<<"left", "p">>, <<"opacity", "p">>>>)
    /\ GetPropertyValue(dom["v2"]["a"].style, "left") = "p"
    /\ GetPropertyValue(dom["v2"]["a"].style, "transform") = ""
    /\ GetPropertyValue(dom["v2"]["a"].style, "opacity") = "q"

-----------------------------------------------------------------------------
(* Properties of the divergence check *)

\* Two sizes agree: both undefined, or both defined and within the tolerance
SizeSame(p, q) ==
    \/ p = None /\ q = None
    \/ IsSome(p) /\ IsSome(q) /\ Abs(Get(p) - Get(q)) <= Eps

\* Snapshots a and b are the same
SameWithinTolerance(a, b) ==
    /\ Abs(a.x - b.x) <= Eps
    /\ Abs(a.y - b.y) <= Eps
    /\ SizeSame(a.w, b.w)
    /\ SizeSame(a.h, b.h)

\* C31: for the live geometry and the snapshot of a locked node, the
\* observer's and the loop's isSameSnapshot both return true exactly when x
\* and y are within 1e-4 and width and height are each undefined in both
\* or defined in both and within 1e-4; and the pass of either detector that
\* compares the node counts it as diverged exactly when they are not.
C31_SameWithinTolerance ==
    [][\A n \in Guarded :
          LET el == <<Get(observedView), n>>
              live == ReadModelSnapshot(hostNodes[Get(observedView)][n])
              saved == Get(lockedModelByCanvas[Get(observedCanvasPath)][n])
          IN IsSome(live) =>
                /\ IsSameSnapshot(Get(live), saved) <=> SameWithinTolerance(Get(live), saved)
                /\ IsSameSnapshotLoop(Get(live), saved) <=> SameWithinTolerance(Get(live), saved)
                /\ (last'.kind \in Detectors /\ el \in last'.seen) =>
                       (el \in last'.diverged <=> ~SameWithinTolerance(Get(live), saved))]_vars

\* An observer batch compared node a after a restore gave it the x and the
\* width of the snapshot; the snapshot has a height and the node has none:
\* it counts as diverged
C31_Witness ==
    /\ last.kind = "observer"
    /\ last.diverged = {<<"v1", "a">>}
    /\ lockedModelByCanvas["c1"]["a"] =
           Some([mode |-> "top", x |-> Eps, y |-> 0, w |-> Some(Eps), h |-> Some(0)])
    /\ ReadModelSnapshot(hostNodes["v1"]["a"]) =
           Some([mode |-> "top", x |-> Eps, y |-> 0, w |-> Some(Eps), h |-> None])

=============================================================================
